---- MODULE Spec2Model ----
(***************************************************************************)
(* Primary-document resolver of the SEC backend (src/server.js, the        *)
(* resolver-based server, lines 170-518), and the index picker of the     *)
(* older server (src/unnamed/part_000).  A call advances at the awaits of  *)
(* the source; calls interleave there.                                     *)
(*                                                                         *)
(* Strings are TLA+ strings; Len, SubSeq and \o act on them character by   *)
(* character.  A regular expression of the source is a record              *)
(* [alts, atEnd]: the literal alternatives of the expression (all of the   *)
(* source's expressions are case-insensitive literals, possibly joined by  *)
(* | and possibly anchored with $).                                        *)
(***************************************************************************)
EXTENDS Integers, Sequences, FiniteSets, TLC

(***************************************************************************)
(* Bounds of the model.                                                    *)
(***************************************************************************)
NumCalls == 2
MaxRows == 2
MaxIdLen == 2
MaxFiles == 2

(***************************************************************************)
(* State.  Every call of resolvePrimaryUrl has its own locals; the inputs  *)
(* cik and accession and the upstream responses are those of one filing.   *)
(***************************************************************************)
VARIABLES
  calls,      \* the resolvePrimaryUrl calls of this run
  cik,        \* raw filer ID
  accession,  \* raw accession number
  upstream,   \* [hdr, idx, listing]: the responses of the three URLs
  formRaw,    \* per call: the form argument
  pc,         \* per call: where the call stands
  trace,      \* per call: the strategies entered, in order
  fetches,    \* per call: the URLs requested, in order
  warnings,   \* per call: messages passed to console.warn
  indexHtml,  \* per call: the local indexHtml (None: null)
  rows,       \* per call: the local rows array
  chosen,     \* per call: the row whose document was returned (None: none)
  rule,       \* per call: the return statement of the index selection taken
  indexError, \* per call: the error caught from getPrimaryFromSecIndex (None: none)
  outcome,    \* per call: what the caller's await yields
  thrown,     \* per call: the errors propagated to the caller
  query,      \* per request: [route, debug] of the HTTP request the call serves
  services,   \* what the PDF service and the document fetch answer; the env
  handler,    \* per request: where the route handler stands
  serviceCalls, \* per request: the calls of the PDF service and document fetches
  responses   \* per request: the HTTP responses sent, in order

vars == <<calls, cik, accession, upstream, formRaw, pc, trace, fetches, warnings,
          indexHtml, rows, chosen, rule, indexError, outcome, thrown,
          query, services, handler, serviceCalls, responses>>

(* the variables of the route handlers; a resolvePrimaryUrl step leaves    *)
(* them alone                                                              *)
handlerVars == <<query, services, handler, serviceCalls, responses>>

(***************************************************************************)
(* JavaScript string primitives.                                           *)
(***************************************************************************)
LowerChars == "abcdefghijklmnopqrstuvwxyz"
UpperChars == "ABCDEFGHIJKLMNOPQRSTUVWXYZ"
DigitChars == "0123456789"

CharAt(s, i) == SubSeq(s, i, i)

CharsOf(s) == {CharAt(s, i) : i \in 1..Len(s)}

IndexIn(alphabet, ch) ==
  IF \E i \in 1..Len(alphabet) : CharAt(alphabet, i) = ch
  THEN CHOOSE i \in 1..Len(alphabet) : CharAt(alphabet, i) = ch
  ELSE 0

UpperOfLower == [ch \in CharsOf(LowerChars) |-> CharAt(UpperChars, IndexIn(LowerChars, ch))]
LowerOfUpper == [ch \in CharsOf(UpperChars) |-> CharAt(LowerChars, IndexIn(UpperChars, ch))]
DigitOf == [ch \in CharsOf(DigitChars) |-> IndexIn(DigitChars, ch) - 1]

UpperChar(ch) == IF ch \in DOMAIN UpperOfLower THEN UpperOfLower[ch] ELSE ch

LowerChar(ch) == IF ch \in DOMAIN LowerOfUpper THEN LowerOfUpper[ch] ELSE ch

RECURSIVE toUpperCase(_)
toUpperCase(s) ==
  IF s = "" THEN "" ELSE UpperChar(CharAt(s, 1)) \o toUpperCase(SubSeq(s, 2, Len(s)))

RECURSIVE toLowerCase(_)
toLowerCase(s) ==
  IF s = "" THEN "" ELSE LowerChar(CharAt(s, 1)) \o toLowerCase(SubSeq(s, 2, Len(s)))

RECURSIVE trimStart(_)
trimStart(s) ==
  IF s # "" /\ CharAt(s, 1) = " " THEN trimStart(SubSeq(s, 2, Len(s))) ELSE s

RECURSIVE trimEnd(_)
trimEnd(s) ==
  IF s # "" /\ CharAt(s, Len(s)) = " " THEN trimEnd(SubSeq(s, 1, Len(s) - 1)) ELSE s

trim(s) == trimEnd(trimStart(s))

(* rx.test(s) for a case-insensitive literal expression *)
RegexTest(rx, s) ==
  LET ls == toLowerCase(s)
  IN \E k \in 1..Len(rx.alts) :
       LET lit == toLowerCase(rx.alts[k])
       IN \E i \in 1..(Len(ls) - Len(lit) + 1) :
            /\ SubSeq(ls, i, i + Len(lit) - 1) = lit
            /\ rx.atEnd => i + Len(lit) - 1 = Len(ls)

Rx(lit) == [alts |-> <<lit>>, atEnd |-> FALSE]
RxEnd(lits) == [alts |-> lits, atEnd |-> TRUE]
RxAny(lits) == [alts |-> lits, atEnd |-> FALSE]

(***************************************************************************)
(* Identifier normalisation and the folder URL.                            *)
(***************************************************************************)
ArchiveRoot == "https://www.sec.gov/Archives/edgar/data/"

(* String(cik).replace(/^0+/, "") *)
RECURSIVE cleanCik(_)
cleanCik(cikRaw) ==
  IF cikRaw # "" /\ CharAt(cikRaw, 1) = "0" THEN cleanCik(SubSeq(cikRaw, 2, Len(cikRaw))) ELSE cikRaw

(* a String(accession).replace("-", "") that drops the first dash only *)
cleanAccessionFirstDash(accessionRaw) ==
  LET dashes == {i \in 1..Len(accessionRaw) : CharAt(accessionRaw, i) = "-"}
      first == CHOOSE i \in dashes : \A j \in dashes : i <= j
  IN IF dashes = {} THEN accessionRaw
     ELSE SubSeq(accessionRaw, 1, first - 1) \o SubSeq(accessionRaw, first + 1, Len(accessionRaw))

(* String(accession).replace(/-/g, "") *)
RECURSIVE cleanAccession(_)
cleanAccession(accessionRaw) ==
  IF accessionRaw = "" THEN ""
  ELSE (IF CharAt(accessionRaw, 1) = "-" THEN "" ELSE CharAt(accessionRaw, 1))
         \o cleanAccession(SubSeq(accessionRaw, 2, Len(accessionRaw)))

secArchiveBase(cikRaw, accessionRaw) ==
  ArchiveRoot \o cleanCik(cikRaw) \o "/" \o cleanAccession(accessionRaw) \o "/"

(* an isHtmlName whose expression lost the optional l: /\.html$/i *)
isHtmlNameHtmlOnly(name) == RegexTest(RxEnd(<<".html">>), name)

isHtmlName(name) == RegexTest(RxEnd(<<".htm", ".html">>), name)

(***************************************************************************)
(* Optional values: None is JavaScript's null/undefined, Some(v) a value.  *)
(***************************************************************************)
None == <<>>
Some(v) == <<v>>

(***************************************************************************)
(* The fixed tables of the resolver.                                       *)
(***************************************************************************)
(* FORM_FILENAME_PATTERNS[formUpper]; <<>> stands for undefined (missing key) *)
FORM_FILENAME_PATTERNS(formUpper) ==
  CASE formUpper = "1-A" -> <<Rx("xsl1-A_X01/primary_doc.xml")>>
    [] formUpper = "1-A POS" -> <<Rx("xsl1-A_X01/primary_doc.xml")>>
    [] formUpper = "1-A/A" -> <<Rx("xsl1-A_X01/primary_doc.xml")>>
    [] formUpper = "1-K" -> <<Rx("xsl1-K_X01/primary_doc.xml")>>
    [] formUpper = "1-SA" -> <<Rx("cloud_1sa.htm"), Rx("cloudastructure_1sa.htm")>>
    [] formUpper = "1-U" -> <<Rx("cloudastructure_1u.htm"), Rx("cloud_1u.htm")>>
    [] formUpper = "10-K" -> <<Rx("cloudastructure_i10k"), Rx("10k")>>
    [] formUpper = "10-Q" -> <<Rx("cloudastructure_i10q"), Rx("10q")>>
    [] formUpper = "144" -> <<Rx("xsl144X01/primary_doc.xml")>>
    [] formUpper = "253G2" -> <<Rx("cloudastructure_253g2.htm"), Rx("cloud_253g2.htm")>>
    [] formUpper = "3" -> <<Rx("xslF345X02/ownership.xml")>>
    [] formUpper = "4" -> <<Rx("xslF345X05/ownership.xml")>>
    [] formUpper = "424B3" -> <<Rx("cloudastructure_424b3.htm"), Rx("424b3")>>
    [] formUpper = "424B4" -> <<Rx("cloudastructure_424b4.htm"), Rx("424b4")>>
    [] formUpper = "8-A12B" -> <<Rx("cloud_8a12b.htm")>>
    [] formUpper = "8-K" -> <<Rx("cloudastructure_8k.htm")>>
    [] formUpper = "8-K/A" -> <<Rx("cloudastructure_8ka.htm")>>
    [] formUpper = "C" -> <<Rx("xslC_X01/primary_doc.xml")>>
    [] formUpper = "C-AR" -> <<Rx("xslC_X01/primary_doc.xml")>>
    [] formUpper = "C-TR" -> <<Rx("xslC_X01/primary_doc.xml")>>
    [] formUpper = "C-U" -> <<Rx("xslC_X01/primary_doc.xml")>>
    [] formUpper = "C/A" -> <<Rx("xslC_X01/primary_doc.xml")>>
    [] formUpper = "CERT" -> <<RxEnd(<<".pdf">>)>>
    [] formUpper = "SEC STAFF ACTION" -> <<RxEnd(<<".pdf">>)>>
    [] formUpper = "UPLOAD" -> <<RxEnd(<<".pdf">>)>>
    [] formUpper = "CORRESP" -> <<Rx("filename1.htm")>>
    [] formUpper = "DRS" -> <<Rx("filename1.htm")>>
    [] formUpper = "DRS/A" -> <<Rx("filename1.htm")>>
    [] formUpper = "DRSLTR" -> <<Rx("filename1.htm")>>
    [] formUpper = "EFFECT" -> <<Rx("xslEFFECTX01/primary_doc.xml")>>
    [] formUpper = "PRE 14A" -> <<Rx("cloud_pre14a.htm")>>
    [] formUpper = "QUALIF" -> <<Rx("xslQUALIFX01/primary_doc.xml")>>
    [] formUpper = "S-1" -> <<Rx("cloudastructure_ex")>>
    [] formUpper = "S-1/A" -> <<Rx("cloudastructure_s1"), RxAny(<<"s-1a", "s1a">>)>>
    [] formUpper = "S-8" -> <<Rx("cloudastructure_s8"), Rx("s-8")>>
    [] formUpper = "DEF 14A" -> <<Rx("cloud_def14a.htm")>>
    [] formUpper = "DEFA14A" -> <<Rx("cloud_defa14a.htm")>>
    [] formUpper = "DEFR14A" -> <<Rx("cloud_defr14a.htm")>>
    [] OTHER -> <<>>

(* OWNERSHIP_FORM_MAP[formUpper] *)
OWNERSHIP_FORM_MAP(formUpper) ==
  CASE formUpper = "3" -> Some("xslF345X02/ownership.xml")
    [] formUpper = "3/A" -> Some("xslF345X02/ownership.xml")
    [] formUpper = "4" -> Some("xslF345X05/ownership.xml")
    [] formUpper = "4/A" -> Some("xslF345X05/ownership.xml")
    [] formUpper = "5" -> Some("xslF345X03/ownership.xml")
    [] formUpper = "5/A" -> Some("xslF345X03/ownership.xml")
    [] OTHER -> None

(* a directXslIfKnown without the QUALIF line *)
directXslIfKnownNoQualif(formUpper) ==
  IF formUpper = "144" THEN Some("xsl144X01/primary_doc.xml")
  ELSE IF formUpper = "EFFECT" THEN Some("xslEFFECTX01/primary_doc.xml")
  ELSE IF formUpper = "1-K" \/ formUpper = "1K" THEN Some("xsl1-K_X01/primary_doc.xml")
  ELSE IF formUpper = "1-A" \/ formUpper = "1-A POS" \/ formUpper = "1-A/A" \/ formUpper = "1A"
       THEN Some("xsl1-A_X01/primary_doc.xml")
  ELSE IF formUpper \in {"C", "C-AR", "C-TR", "C-U", "C/A"} THEN Some("xslC_X01/primary_doc.xml")
  ELSE IF formUpper = "D" THEN Some("xslFormDX01/primary_doc.xml")
  ELSE None

directXslIfKnown(formUpper) ==
  IF formUpper = "144" THEN Some("xsl144X01/primary_doc.xml")
  ELSE IF formUpper = "EFFECT" THEN Some("xslEFFECTX01/primary_doc.xml")
  ELSE IF formUpper = "1-K" \/ formUpper = "1K" THEN Some("xsl1-K_X01/primary_doc.xml")
  ELSE IF formUpper = "1-A" \/ formUpper = "1-A POS" \/ formUpper = "1-A/A" \/ formUpper = "1A"
       THEN Some("xsl1-A_X01/primary_doc.xml")
  ELSE IF formUpper \in {"C", "C-AR", "C-TR", "C-U", "C/A"} THEN Some("xslC_X01/primary_doc.xml")
  ELSE IF formUpper = "D" THEN Some("xslFormDX01/primary_doc.xml")
  ELSE IF formUpper = "QUALIF" THEN Some("xslQUALIFX01/primary_doc.xml")
  ELSE None

(***************************************************************************)
(* Numbers.  A parsed size is the exact decimal [n, d] = n / 10^d.         *)
(***************************************************************************)
RECURSIVE Pow10(_)
Pow10(k) == IF k = 0 THEN 1 ELSE 10 * Pow10(k - 1)

IsDigit(ch) == ch \in DOMAIN DigitOf

RECURSIVE DigitsValue(_)
DigitsValue(ds) ==
  IF ds = "" THEN 0
  ELSE 10 * DigitsValue(SubSeq(ds, 1, Len(ds) - 1)) + DigitOf[CharAt(ds, Len(ds))]

RECURSIVE LeadingDigits(_)
LeadingDigits(s) ==
  IF s # "" /\ IsDigit(CharAt(s, 1))
  THEN CharAt(s, 1) \o LeadingDigits(SubSeq(s, 2, Len(s)))
  ELSE ""

(* sizeText.replace(/[^0-9.]/g, "") *)
RECURSIVE StripNonNumeric(_)
StripNonNumeric(s) ==
  IF s = "" THEN ""
  ELSE (IF IsDigit(CharAt(s, 1)) \/ CharAt(s, 1) = "." THEN CharAt(s, 1) ELSE "")
         \o StripNonNumeric(SubSeq(s, 2, Len(s)))

(* parseFloat on a text of digits and periods: the longest prefix that is *)
(* a decimal literal; None is NaN                                         *)
parseFloat(s) ==
  LET ip == LeadingDigits(s)
      rest == SubSeq(s, Len(ip) + 1, Len(s))
      fp == IF rest # "" /\ CharAt(rest, 1) = "."
            THEN LeadingDigits(SubSeq(rest, 2, Len(rest)))
            ELSE ""
  IN IF ip = "" /\ fp = "" THEN None
     ELSE Some([n |-> DigitsValue(ip \o fp), d |-> Len(fp)])

Zero == [n |-> 0, d |-> 0]

(* sign of x - y for two decimals *)
NumCompare(x, y) ==
  LET l == x.n * Pow10(y.d)
      r == y.n * Pow10(x.d)
  IN IF l < r THEN -1 ELSE IF l > r THEN 1 ELSE 0

(***************************************************************************)
(* The index page.  A body is [empty, tables]; a table is [class, trs];    *)
(* a tr is the sequence of the texts of its td cells.                      *)
(***************************************************************************)
(* a table lookup that ignores the class: $("table").first() *)
FindTableFirstOnly(body) ==
  IF Len(body.tables) > 0 THEN Some(body.tables[1]) ELSE None

(* $("table.tableFile").first(), else $("table").first(); None: no table *)
FindTable(body) ==
  LET tf == {i \in 1..Len(body.tables) : body.tables[i].class = "tableFile"}
  IN IF tf # {} THEN Some(body.tables[CHOOSE i \in tf : \A j \in tf : i <= j])
     ELSE IF Len(body.tables) > 0 THEN Some(body.tables[1])
     ELSE None

ParseSize(tds) ==
  LET sizeText == IF Len(tds) >= 4 THEN trim(tds[4]) ELSE ""
      num == IF sizeText # "" THEN parseFloat(StripNonNumeric(sizeText)) ELSE None
  IN IF num # None THEN num[1] ELSE Zero

ParseRow(tds) ==
  [document |-> trim(tds[1]),
   type |-> toUpperCase(trim(tds[2])),
   description |-> IF Len(tds) >= 3 THEN trim(tds[3]) ELSE "",
   size |-> ParseSize(tds)]

(* table.find("tr").each(...): the rows pushed, in table order *)
RECURSIVE ParseRows(_)
ParseRows(trs) ==
  IF trs = <<>> THEN <<>>
  ELSE LET tds == Head(trs)
       IN (IF Len(tds) >= 2 /\ trim(tds[1]) # "" THEN <<ParseRow(tds)>> ELSE <<>>)
            \o ParseRows(Tail(trs))

(***************************************************************************)
(* Selection among the parsed rows.                                        *)
(***************************************************************************)
(* the comparator (a, b) => (b.size || 0) - (a.size || 0) *)
SizeComparator(a, b) == NumCompare(b.size, a.size)

(* a sort with the comparator reversed: (a, b) => (a.size || 0) - (b.size || 0) *)
RECURSIVE SortBySizeAsc(_)
SortBySizeAsc(seq) ==
  IF seq = <<>> THEN <<>>
  ELSE LET front == SortBySizeAsc(SubSeq(seq, 1, Len(seq) - 1))
           x == seq[Len(seq)]
           after == {j \in 1..Len(front) : SizeComparator(x, front[j]) > 0}
           at == IF after = {} THEN Len(front) + 1
                 ELSE CHOOSE j \in after : \A k \in after : j <= k
       IN SubSeq(front, 1, at - 1) \o <<x>> \o SubSeq(front, at, Len(front))

(* a sort that is not stable: of equal elements the later one comes first *)
RECURSIVE SortBySizeDescUnstable(_)
SortBySizeDescUnstable(seq) ==
  IF seq = <<>> THEN <<>>
  ELSE LET front == SortBySizeDescUnstable(SubSeq(seq, 1, Len(seq) - 1))
           x == seq[Len(seq)]
           after == {j \in 1..Len(front) : SizeComparator(front[j], x) >= 0}
           at == IF after = {} THEN Len(front) + 1
                 ELSE CHOOSE j \in after : \A k \in after : j <= k
       IN SubSeq(front, 1, at - 1) \o <<x>> \o SubSeq(front, at, Len(front))

(* seq.sort(comparator); Array.prototype.sort is stable, so elements the *)
(* comparator calls equal keep their order                                *)
RECURSIVE SortBySizeDesc(_)
SortBySizeDesc(seq) ==
  IF seq = <<>> THEN <<>>
  ELSE LET front == SortBySizeDesc(SubSeq(seq, 1, Len(seq) - 1))
           x == seq[Len(seq)]
           after == {j \in 1..Len(front) : SizeComparator(front[j], x) > 0}
           at == IF after = {} THEN Len(front) + 1
                 ELSE CHOOSE j \in after : \A k \in after : j <= k
       IN SubSeq(front, 1, at - 1) \o <<x>> \o SubSeq(front, at, Len(front))

(* a rows.find with an expression that keeps state between calls (a g     *)
(* flag): after a call that matched, the next test starts past the match  *)
FindRowSticky(rowList, rx) ==
  LET hits == {i \in 1..Len(rowList) : RegexTest(rx, rowList[i].document)}
  IN IF hits = {} \/ (\E d \in calls : rule[d] = "pattern") THEN None
     ELSE Some(rowList[CHOOSE i \in hits : \A j \in hits : i <= j])

(* rows.find(r => rx.test(r.document)) *)
FindRow(rowList, rx) ==
  LET hits == {i \in 1..Len(rowList) : RegexTest(rx, rowList[i].document)}
  IN IF hits = {} THEN None ELSE Some(rowList[CHOOSE i \in hits : \A j \in hits : i <= j])

(* a pattern rule with the loops exchanged: the first row that matches any *)
(* of the expressions                                                      *)
PatternHitRowFirst(rowList, pats) ==
  LET hits == {i \in 1..Len(rowList) :
                 \E k \in 1..Len(pats) : RegexTest(pats[k], rowList[i].document)}
  IN IF hits = {} THEN None ELSE Some(rowList[CHOOSE i \in hits : \A j \in hits : i <= j])

(* for (const rx of pats) { hit = rows.find(...); if (hit) return ... } *)
PatternHit(rowList, pats) ==
  LET hitting == {k \in 1..Len(pats) : FindRow(rowList, pats[k]) # None}
  IN IF hitting = {} THEN None
     ELSE FindRow(rowList, pats[CHOOSE k \in hitting : \A m \in hitting : k <= m])

(* a selection that tries the declared type before the filename patterns *)
IndexPickTypeFirst(rowList, formUpper) ==
  LET isHtmlRow(r) == isHtmlName(r.document)
      isSameType(r) == r.type = formUpper
      Largest(html) == SortBySizeDesc(html)[1]
      FromType(sameType, htmlSameType) ==
        IF htmlSameType # <<>>
        THEN [row |-> Largest(htmlSameType), rule |-> "typeHtml"]
        ELSE [row |-> sameType[1], rule |-> "typeFirst"]
      FromAny(anyHtml) ==
        IF anyHtml # <<>>
        THEN [row |-> Largest(anyHtml), rule |-> "anyHtml"]
        ELSE [row |-> rowList[1], rule |-> "firstRow"]
      Choose(hit, sameType) ==
        IF sameType # <<>> THEN FromType(sameType, SelectSeq(sameType, isHtmlRow))
        ELSE IF hit # None THEN [row |-> hit[1], rule |-> "pattern"]
        ELSE FromAny(SelectSeq(rowList, isHtmlRow))
  IN Choose(PatternHit(rowList, FORM_FILENAME_PATTERNS(formUpper)),
            SelectSeq(rowList, isSameType))

(* a selection that returns a non-HTML row of the requested type only     *)
(* when the table has no HTML row at all                                  *)
IndexPickHtmlOverType(rowList, formUpper) ==
  LET isHtmlRow(r) == isHtmlName(r.document)
      isSameType(r) == r.type = formUpper
      Largest(html) == SortBySizeDesc(html)[1]
      FromAny(anyHtml) ==
        IF anyHtml # <<>>
        THEN [row |-> Largest(anyHtml), rule |-> "anyHtml"]
        ELSE [row |-> rowList[1], rule |-> "firstRow"]
      FromType(sameType, htmlSameType, anyHtml) ==
        IF htmlSameType # <<>>
        THEN [row |-> Largest(htmlSameType), rule |-> "typeHtml"]
        ELSE IF anyHtml # <<>> THEN FromAny(anyHtml)
        ELSE [row |-> sameType[1], rule |-> "typeFirst"]
      Choose(hit, sameType) ==
        IF hit # None THEN [row |-> hit[1], rule |-> "pattern"]
        ELSE IF sameType # <<>>
        THEN FromType(sameType, SelectSeq(sameType, isHtmlRow), SelectSeq(rowList, isHtmlRow))
        ELSE FromAny(SelectSeq(rowList, isHtmlRow))
  IN Choose(PatternHit(rowList, FORM_FILENAME_PATTERNS(formUpper)),
            SelectSeq(rowList, isSameType))

(* The selection of getPrimaryFromSecIndex on a non-empty rows array:     *)
(* the row whose document is returned and the return statement taken.     *)
IndexPick(rowList, formUpper) ==
  LET isHtmlRow(r) == isHtmlName(r.document)
      isSameType(r) == r.type = formUpper
      Largest(html) == SortBySizeDesc(html)[1]
      FromType(sameType, htmlSameType) ==
        IF htmlSameType # <<>>
        THEN [row |-> Largest(htmlSameType), rule |-> "typeHtml"]
        ELSE [row |-> sameType[1], rule |-> "typeFirst"]
      FromAny(anyHtml) ==
        IF anyHtml # <<>>
        THEN [row |-> Largest(anyHtml), rule |-> "anyHtml"]
        ELSE [row |-> rowList[1], rule |-> "firstRow"]
      Choose(hit, sameType) ==
        IF hit # None THEN [row |-> hit[1], rule |-> "pattern"]
        ELSE IF sameType # <<>> THEN FromType(sameType, SelectSeq(sameType, isHtmlRow))
        ELSE FromAny(SelectSeq(rowList, isHtmlRow))
  IN Choose(PatternHit(rowList, FORM_FILENAME_PATTERNS(formUpper)),
            SelectSeq(rowList, isSameType))

(* a getPrimaryFromSecIndex without the final return of rows[0]: it throws *)
(* when no pattern hits, no type matches and no row is HTML                *)
IndexFromBodyNoFallback(base, body, formUpper) ==
  LET Return(parsed, pick) ==
        IF pick.rule = "firstRow"
        THEN [kind |-> "throw", val |-> "NoCandidateFound",
              rows |-> parsed, chosen |-> None, rule |-> "none"]
        ELSE [kind |-> "url", val |-> base \o pick.row.document,
              rows |-> parsed, chosen |-> Some(pick.row), rule |-> pick.rule]
      Select(parsed) ==
        IF parsed = <<>>
        THEN [kind |-> "throw", val |-> "No document rows found in SEC index",
              rows |-> <<>>, chosen |-> None, rule |-> "none"]
        ELSE Return(parsed, IndexPick(parsed, formUpper))
      Parse(table) ==
        IF table = None
        THEN [kind |-> "throw", val |-> "No table found in SEC index",
              rows |-> <<>>, chosen |-> None, rule |-> "none"]
        ELSE Select(ParseRows(table[1].trs))
  IN Parse(FindTable(body))

(* What getPrimaryFromSecIndex does with a fetched body: an error thrown   *)
(* or a URL returned; rows is the local array at that point.              *)
IndexFromBody(base, body, formUpper) ==
  LET Return(parsed, pick) ==
        [kind |-> "url", val |-> base \o pick.row.document,
         rows |-> parsed, chosen |-> Some(pick.row), rule |-> pick.rule]
      Select(parsed) ==
        IF parsed = <<>>
        THEN [kind |-> "throw", val |-> "No document rows found in SEC index",
              rows |-> <<>>, chosen |-> None, rule |-> "none"]
        ELSE Return(parsed, IndexPick(parsed, formUpper))
      Parse(table) ==
        IF table = None
        THEN [kind |-> "throw", val |-> "No table found in SEC index",
              rows |-> <<>>, chosen |-> None, rule |-> "none"]
        ELSE Select(ParseRows(table[1].trs))
  IN Parse(FindTable(body))

(***************************************************************************)
(* The listing service.  A descriptor of the JSON array is                 *)
(* [null, filename, url, type]; null marks a JSON null element, and each   *)
(* field is None when the descriptor does not have it.                     *)
(***************************************************************************)
WORKER_BASE_URL == "https://sec-fillings.mariog.workers.dev/"

EncodeChar(ch) ==
  IF ch = " " THEN "%20" ELSE IF ch = "/" THEN "%2F" ELSE ch

(* encodeURIComponent on the characters the model uses *)
RECURSIVE encodeURIComponent(_)
encodeURIComponent(s) ==
  IF s = "" THEN "" ELSE EncodeChar(CharAt(s, 1)) \o encodeURIComponent(SubSeq(s, 2, Len(s)))

OrEmpty(field) == IF field = None THEN "" ELSE field[1]

Truthy(field) == field # None /\ field[1] # ""

(* what the caller receives for `return f.url` *)
ReturnUrl(f) ==
  IF f.url = None THEN [kind |-> "undefined", val |-> ""]
  ELSE [kind |-> "url", val |-> f.url[1]]

TypeError == [kind |-> "throw", val |-> "TypeError"]

MinOf(S) == CHOOSE i \in S : \A j \in S : i <= j

(* the pattern loop of getPrimaryFromWorker from pattern k on: a value    *)
(* returned, a TypeError on a null element, or "next" to fall through     *)
RECURSIVE WorkerPatternLoop(_, _, _)
WorkerPatternLoop(files, pats, k) ==
  IF k > Len(pats) THEN [kind |-> "next", val |-> ""]
  ELSE LET nulls == {i \in 1..Len(files) : files[i].null}
           hits == {i \in 1..Len(files) :
                      ~files[i].null /\ RegexTest(pats[k], OrEmpty(files[i].filename))}
       IN IF nulls # {} /\ (hits = {} \/ MinOf(nulls) < MinOf(hits)) THEN TypeError
          ELSE IF hits # {} /\ Truthy(files[MinOf(hits)].url)
               THEN ReturnUrl(files[MinOf(hits)])
          ELSE WorkerPatternLoop(files, pats, k + 1)

(* a selection that looks for a PDF descriptor before the HTML ones *)
WorkerPickPdfFirst(files, formUpper) ==
  LET pats == FORM_FILENAME_PATTERNS(formUpper)
      byPattern == WorkerPatternLoop(files, pats, 1)
      isHtml(f) == ~f.null /\ (f.type = Some("html") \/ isHtmlName(OrEmpty(f.filename)))
      htmls == SelectSeq(files, isHtml)
      notIndex == {i \in 1..Len(htmls) :
                     ~RegexTest(RxAny(<<"index", "header", "headers", "idx">>),
                                OrEmpty(htmls[i].filename))}
      main == IF notIndex # {} THEN htmls[MinOf(notIndex)] ELSE htmls[1]
      pdfs == {i \in 1..Len(files) : ~files[i].null /\ files[i].type = Some("pdf")}
  IN IF byPattern.kind # "next" THEN byPattern
     ELSE IF pdfs # {} /\ Truthy(files[MinOf(pdfs)].url) THEN ReturnUrl(files[MinOf(pdfs)])
     ELSE IF htmls # <<>> THEN ReturnUrl(main)
     ELSE IF files[1].null THEN TypeError
     ELSE ReturnUrl(files[1])

(* the selection of getPrimaryFromWorker on a non-empty array *)
WorkerPick(files, formUpper) ==
  LET pats == FORM_FILENAME_PATTERNS(formUpper)
      byPattern == WorkerPatternLoop(files, pats, 1)
      isHtml(f) == ~f.null /\ (f.type = Some("html") \/ isHtmlName(OrEmpty(f.filename)))
      htmls == SelectSeq(files, isHtml)
      notIndex == {i \in 1..Len(htmls) :
                     ~RegexTest(RxAny(<<"index", "header", "headers", "idx">>),
                                OrEmpty(htmls[i].filename))}
      main == IF notIndex # {} THEN htmls[MinOf(notIndex)] ELSE htmls[1]
      pdfs == {i \in 1..Len(files) : ~files[i].null /\ files[i].type = Some("pdf")}
  IN IF byPattern.kind # "next" THEN byPattern
     ELSE IF htmls # <<>> THEN ReturnUrl(main)
     ELSE IF pdfs # {} /\ Truthy(files[MinOf(pdfs)].url) THEN ReturnUrl(files[MinOf(pdfs)])
     ELSE IF files[1].null THEN TypeError
     ELSE ReturnUrl(files[1])

(* What getPrimaryFromWorker does with the response of the listing service *)
WorkerFromResponse(resp, formUpper) ==
  IF ~resp.ok THEN [kind |-> "throw", val |-> "Worker listing failed"]
  ELSE IF resp.json.kind = "invalid" THEN [kind |-> "throw", val |-> "invalid json response body"]
  ELSE IF resp.json.kind # "array" \/ resp.json.files = <<>>
       THEN [kind |-> "throw", val |-> "No files from worker"]
  ELSE WorkerPick(resp.json.files, formUpper)

Pending == [kind |-> "pending", val |-> ""]

Terminal == {"Resolved", "Failed"}

hdrUrl == secArchiveBase(cik, accession) \o cleanAccession(accession) \o "-index-headers.html"
idxUrl == secArchiveBase(cik, accession) \o cleanAccession(accession) \o "-index.html"
listingUrl == WORKER_BASE_URL \o "filing?accession=" \o encodeURIComponent(accession)

(* a form argument that is upper-cased but not trimmed *)
formUpperOfNoTrim(c) == toUpperCase(formRaw[c])

formUpperOf(c) == toUpperCase(trim(formRaw[c]))

(* resolvePrimaryUrl up to its first await: the deterministic lookups, and *)
(* on a miss the entry into getPrimaryFromSecIndex and its first fetch     *)
Start(c) ==
  /\ pc[c] = "NotStarted"
  /\ LET formUpper == formUpperOf(c)
         base == secArchiveBase(cik, accession)
         owner == OWNERSHIP_FORM_MAP(formUpper)
         direct == directXslIfKnown(formUpper)
     IN IF owner # None
        THEN /\ pc' = [pc EXCEPT ![c] = "Resolved"]
             /\ trace' = [trace EXCEPT ![c] = <<"TryDeterministic">>]
             /\ outcome' = [outcome EXCEPT ![c] = [kind |-> "url", val |-> base \o owner[1]]]
             /\ UNCHANGED fetches
        ELSE IF direct # None
        THEN /\ pc' = [pc EXCEPT ![c] = "Resolved"]
             /\ trace' = [trace EXCEPT ![c] = <<"TryDeterministic">>]
             /\ outcome' = [outcome EXCEPT ![c] = [kind |-> "url", val |-> base \o direct[1]]]
             /\ UNCHANGED fetches
        ELSE /\ pc' = [pc EXCEPT ![c] = "AwaitHdr"]
             /\ trace' = [trace EXCEPT ![c] = <<"TryDeterministic", "TryIndex">>]
             /\ fetches' = [fetches EXCEPT ![c] = <<hdrUrl>>]
             /\ UNCHANGED outcome
  /\ UNCHANGED <<calls, cik, accession, upstream, formRaw, warnings, indexHtml, rows,
                 chosen, rule, indexError, thrown>>

(* the locals of a call after the index fetch loop *)
IndexResult(c, html) ==
  IF html = None \/ html[1].empty
  THEN [kind |-> "throw", val |-> "Could not fetch SEC index page",
        rows |-> <<>>, chosen |-> None, rule |-> "none"]
  ELSE IndexFromBody(secArchiveBase(cik, accession), html[1], formUpperOf(c))

(* a resolvePrimaryUrl without the return in front of the awaited index   *)
(* strategy: its URL is dropped and the listing service asked anyway      *)
AfterIndexFetchNoReturn(c, html) ==
  LET Continue(r) ==
     /\ indexHtml' = [indexHtml EXCEPT ![c] = html]
     /\ rows' = [rows EXCEPT ![c] = r.rows]
     /\ chosen' = [chosen EXCEPT ![c] = r.chosen]
     /\ rule' = [rule EXCEPT ![c] = r.rule]
     /\ pc' = [pc EXCEPT ![c] = "AwaitListing"]
     /\ trace' = [trace EXCEPT ![c] = Append(@, "TryListing")]
     /\ fetches' = [fetches EXCEPT ![c] = Append(@, listingUrl)]
     /\ IF r.kind = "url"
        THEN UNCHANGED <<warnings, indexError>>
        ELSE /\ indexError' = [indexError EXCEPT ![c] = Some(r.val)]
             /\ warnings' = [warnings EXCEPT ![c] = Append(@, r.val)]
     /\ UNCHANGED outcome
  IN Continue(IndexResult(c, html))

(* a resolvePrimaryUrl without the try/catch: the index error reaches the *)
(* caller                                                                 *)
AfterIndexFetchRethrow(c, html) ==
  LET Continue(r) ==
     /\ indexHtml' = [indexHtml EXCEPT ![c] = html]
     /\ rows' = [rows EXCEPT ![c] = r.rows]
     /\ chosen' = [chosen EXCEPT ![c] = r.chosen]
     /\ rule' = [rule EXCEPT ![c] = r.rule]
     /\ IF r.kind = "url"
        THEN /\ pc' = [pc EXCEPT ![c] = "Resolved"]
             /\ outcome' = [outcome EXCEPT ![c] = [kind |-> "url", val |-> r.val]]
             /\ UNCHANGED indexError
        ELSE /\ pc' = [pc EXCEPT ![c] = "Failed"]
             /\ indexError' = [indexError EXCEPT ![c] = Some(r.val)]
             /\ outcome' = [outcome EXCEPT ![c] = [kind |-> "error", val |-> r.val]]
     /\ UNCHANGED <<trace, fetches, warnings>>
  IN Continue(IndexResult(c, html))

(* a getPrimaryFromSecIndex whose rows array lives at module level: every *)
(* call sees the rows the last parse pushed                                *)
AfterIndexFetchSharedRows(c, html) ==
  LET Continue(r) ==
     /\ indexHtml' = [indexHtml EXCEPT ![c] = html]
     /\ rows' = [d \in calls |-> r.rows]
     /\ chosen' = [chosen EXCEPT ![c] = r.chosen]
     /\ rule' = [rule EXCEPT ![c] = r.rule]
     /\ IF r.kind = "url"
        THEN /\ pc' = [pc EXCEPT ![c] = "Resolved"]
             /\ outcome' = [outcome EXCEPT ![c] = [kind |-> "url", val |-> r.val]]
             /\ UNCHANGED <<trace, fetches, warnings, indexError>>
        ELSE /\ pc' = [pc EXCEPT ![c] = "AwaitListing"]
             /\ indexError' = [indexError EXCEPT ![c] = Some(r.val)]
             /\ warnings' = [warnings EXCEPT ![c] = Append(@, r.val)]
             /\ trace' = [trace EXCEPT ![c] = Append(@, "TryListing")]
             /\ fetches' = [fetches EXCEPT ![c] = Append(@, listingUrl)]
             /\ UNCHANGED outcome
  IN Continue(IndexResult(c, html))

(* getPrimaryFromSecIndex from the end of its fetch loop to its return or  *)
(* throw, and on a throw the catch of resolvePrimaryUrl: the warning and   *)
(* the request of getPrimaryFromWorker                                     *)
AfterIndexFetch(c, html) ==
  LET Continue(r) ==
     /\ indexHtml' = [indexHtml EXCEPT ![c] = html]
     /\ rows' = [rows EXCEPT ![c] = r.rows]
     /\ chosen' = [chosen EXCEPT ![c] = r.chosen]
     /\ rule' = [rule EXCEPT ![c] = r.rule]
     /\ IF r.kind = "url"
        THEN /\ pc' = [pc EXCEPT ![c] = "Resolved"]
             /\ outcome' = [outcome EXCEPT ![c] = [kind |-> "url", val |-> r.val]]
             /\ UNCHANGED <<trace, fetches, warnings, indexError>>
        ELSE /\ pc' = [pc EXCEPT ![c] = "AwaitListing"]
             /\ indexError' = [indexError EXCEPT ![c] = Some(r.val)]
             /\ warnings' = [warnings EXCEPT ![c] = Append(@, r.val)]
             /\ trace' = [trace EXCEPT ![c] = Append(@, "TryListing")]
             /\ fetches' = [fetches EXCEPT ![c] = Append(@, listingUrl)]
             /\ UNCHANGED outcome
  IN Continue(IndexResult(c, html))

(* a fetch loop that requests the index-headers URL a second time after   *)
(* its failure, before it goes on to the plain index URL                   *)
HdrDoneRetry(c) ==
  /\ pc[c] = "AwaitHdr"
  /\ IF upstream.hdr.ok
     THEN AfterIndexFetch(c, Some(upstream.hdr.body))
     ELSE IF Len(fetches[c]) < 2
     THEN /\ fetches' = [fetches EXCEPT ![c] = Append(@, hdrUrl)]
          /\ UNCHANGED <<pc, trace, warnings, indexHtml, rows, chosen, rule, indexError, outcome>>
     ELSE /\ pc' = [pc EXCEPT ![c] = "AwaitIdx"]
          /\ fetches' = [fetches EXCEPT ![c] = Append(@, idxUrl)]
          /\ UNCHANGED <<trace, warnings, indexHtml, rows, chosen, rule, indexError, outcome>>
  /\ UNCHANGED <<calls, cik, accession, upstream, formRaw, thrown>>

(* the index-headers request completes *)
HdrDone(c) ==
  /\ pc[c] = "AwaitHdr"
  /\ IF upstream.hdr.ok
     THEN AfterIndexFetch(c, Some(upstream.hdr.body))
     ELSE /\ pc' = [pc EXCEPT ![c] = "AwaitIdx"]
          /\ fetches' = [fetches EXCEPT ![c] = Append(@, idxUrl)]
          /\ UNCHANGED <<trace, warnings, indexHtml, rows, chosen, rule, indexError, outcome>>
  /\ UNCHANGED <<calls, cik, accession, upstream, formRaw, thrown>>

(* a fetch loop that does not leave the plain index URL until it answers  *)
(* successfully                                                            *)
IdxDoneWaitForSuccess(c) ==
  /\ pc[c] = "AwaitIdx"
  /\ IF upstream.idx.ok
     THEN AfterIndexFetch(c, Some(upstream.idx.body))
     ELSE UNCHANGED <<pc, trace, fetches, warnings, indexHtml, rows, chosen, rule,
                      indexError, outcome>>
  /\ UNCHANGED <<calls, cik, accession, upstream, formRaw, thrown>>

(* the plain index request completes *)
IdxDone(c) ==
  /\ pc[c] = "AwaitIdx"
  /\ IF upstream.idx.ok
     THEN AfterIndexFetch(c, Some(upstream.idx.body))
     ELSE AfterIndexFetch(c, None)
  /\ UNCHANGED <<calls, cik, accession, upstream, formRaw, thrown>>

(* a listing strategy that asks the listing service again after a failure *)
ListingDoneRetry(c) ==
  /\ pc[c] = "AwaitListing"
  /\ LET Deliver(r) ==
        IF r.kind = "throw" /\ Len(fetches[c]) < 4
        THEN /\ fetches' = [fetches EXCEPT ![c] = Append(@, listingUrl)]
             /\ UNCHANGED <<pc, outcome, thrown>>
        ELSE IF r.kind = "throw"
        THEN /\ pc' = [pc EXCEPT ![c] = "Failed"]
             /\ outcome' = [outcome EXCEPT ![c] = [kind |-> "error", val |-> r.val]]
             /\ thrown' = [thrown EXCEPT ![c] = Append(@, r.val)]
             /\ UNCHANGED fetches
        ELSE /\ pc' = [pc EXCEPT ![c] = "Resolved"]
             /\ outcome' = [outcome EXCEPT ![c] = r]
             /\ UNCHANGED <<thrown, fetches>>
     IN Deliver(WorkerFromResponse(upstream.listing, formUpperOf(c)))
  /\ UNCHANGED <<calls, cik, accession, upstream, formRaw, trace, warnings,
                 indexHtml, rows, chosen, rule, indexError>>

(* the listing-service request completes: getPrimaryFromWorker returns or *)
(* throws, and resolvePrimaryUrl hands that to its caller                 *)
ListingDone(c) ==
  /\ pc[c] = "AwaitListing"
  /\ LET Deliver(r) ==
        IF r.kind = "throw"
        THEN /\ pc' = [pc EXCEPT ![c] = "Failed"]
             /\ outcome' = [outcome EXCEPT ![c] = [kind |-> "error", val |-> r.val]]
             /\ thrown' = [thrown EXCEPT ![c] = Append(@, r.val)]
        ELSE /\ pc' = [pc EXCEPT ![c] = "Resolved"]
             /\ outcome' = [outcome EXCEPT ![c] = r]
             /\ UNCHANGED thrown
     IN Deliver(WorkerFromResponse(upstream.listing, formUpperOf(c)))
  /\ UNCHANGED <<calls, cik, accession, upstream, formRaw, trace, fetches, warnings,
                 indexHtml, rows, chosen, rule, indexError>>

Next ==
  \/ \E c \in calls : Start(c) /\ UNCHANGED handlerVars
  \/ \E c \in calls : HdrDone(c) /\ UNCHANGED handlerVars
  \/ \E c \in calls : IdxDone(c) /\ UNCHANGED handlerVars
  \/ \E c \in calls : ListingDone(c) /\ UNCHANGED handlerVars

(***************************************************************************)
(* The older server (src/unnamed/part_000): its /filing-pdf handler looks  *)
(* the form up in the ownership map and otherwise calls                    *)
(* getPrimaryDocumentUrlFromIndex, which has no filename patterns and no   *)
(* listing fallback.                                                       *)
(***************************************************************************)
endsWith(s, suffix) ==
  Len(s) >= Len(suffix) /\ SubSeq(s, Len(s) - Len(suffix) + 1, Len(s)) = suffix

includes(s, sub) ==
  sub = "" \/ \E i \in 1..(Len(s) - Len(sub) + 1) : SubSeq(s, i, i + Len(sub) - 1) = sub

isHtmlDoc(fname) ==
  endsWith(toLowerCase(fname), ".htm") \/ endsWith(toLowerCase(fname), ".html")

normalizedFormOf(c) == trim(toUpperCase(formRaw[c]))

baseFolder ==
  "https://www.sec.gov/Archives/edgar/data/" \o cleanCik(cik) \o "/"
    \o cleanAccession(accession) \o "/"

getOwnershipStyledUrl(form) ==
  LET rel == OWNERSHIP_FORM_MAP(toUpperCase(form))
  IN IF rel = None THEN None ELSE Some(baseFolder \o rel[1])

(* the selection of getPrimaryDocumentUrlFromIndex on a non-empty rows array *)
LegacyPick(rowList, normalizedForm) ==
  LET isMatching(r) == r.type = normalizedForm
      isHtmlRow(r) == isHtmlDoc(r.document)
      isDescMatch(r) == includes(toUpperCase(r.description), normalizedForm)
      Largest(html) == SortBySizeDesc(html)[1]
      Preferred(htmlMatches, descMatches) ==
        IF descMatches # <<>> THEN descMatches ELSE htmlMatches
      FromAny(allHtml) ==
        IF allHtml = <<>> THEN [row |-> rowList[1], rule |-> "firstRow"]
        ELSE [row |-> Largest(allHtml), rule |-> "anyHtml"]
      FromType(matching, htmlMatches) ==
        IF htmlMatches # <<>>
        THEN [row |-> Largest(Preferred(htmlMatches, SelectSeq(htmlMatches, isDescMatch))),
              rule |-> "typeHtml"]
        ELSE IF matching # <<>> THEN [row |-> matching[1], rule |-> "typeFirst"]
        ELSE FromAny(SelectSeq(rowList, isHtmlRow))
      Choose(matching) == FromType(matching, SelectSeq(matching, isHtmlRow))
  IN Choose(SelectSeq(rowList, isMatching))

(* the locals of getPrimaryDocumentUrlFromIndex after its fetch loop, and  *)
(* what it returns or throws                                               *)
LegacyIndexResult(c, html) ==
  IF html = None \/ html[1].empty
  THEN [kind |-> "throw", val |-> "Could not fetch any SEC index page for this accession",
        rows |-> <<>>, chosen |-> None, rule |-> "none"]
  ELSE LET Return(parsed, pick) ==
             IF pick.row.document = ""
             THEN [kind |-> "throw",
                   val |-> "Could not determine primary document from SEC index",
                   rows |-> parsed, chosen |-> None, rule |-> "none"]
             ELSE [kind |-> "url", val |-> baseFolder \o pick.row.document,
                   rows |-> parsed, chosen |-> Some(pick.row), rule |-> pick.rule]
           Select(parsed) ==
             IF parsed = <<>>
             THEN [kind |-> "throw", val |-> "No document rows found in SEC index table",
                   rows |-> <<>>, chosen |-> None, rule |-> "none"]
             ELSE Return(parsed, LegacyPick(parsed, normalizedFormOf(c)))
           Parse(table) ==
             IF table = None
             THEN [kind |-> "throw", val |-> "No table found in SEC index page",
                   rows |-> <<>>, chosen |-> None, rule |-> "none"]
             ELSE Select(ParseRows(table[1].trs))
       IN Parse(FindTable(html[1]))

(* the handler up to its first await *)
LegacyStart(c) ==
  /\ pc[c] = "NotStarted"
  /\ trace' = [trace EXCEPT ![c] = <<"LegacyIndex">>]
  /\ LET filingUrl == getOwnershipStyledUrl(normalizedFormOf(c))
     IN IF filingUrl # None
        THEN /\ pc' = [pc EXCEPT ![c] = "Resolved"]
             /\ outcome' = [outcome EXCEPT ![c] = [kind |-> "url", val |-> filingUrl[1]]]
             /\ UNCHANGED fetches
        ELSE /\ pc' = [pc EXCEPT ![c] = "LegacyAwaitHdr"]
             /\ fetches' = [fetches EXCEPT ![c] =
                              <<baseFolder \o cleanAccession(accession) \o "-index-headers.html">>]
             /\ UNCHANGED outcome
  /\ UNCHANGED <<calls, cik, accession, upstream, formRaw, warnings, indexHtml, rows,
                 chosen, rule, indexError, thrown>>

(* getPrimaryDocumentUrlFromIndex from the end of its fetch loop to its    *)
(* return or throw; a throw reaches the catch of the handler               *)
LegacyAfterIndexFetch(c, html) ==
  LET Continue(r) ==
     /\ indexHtml' = [indexHtml EXCEPT ![c] = html]
     /\ rows' = [rows EXCEPT ![c] = r.rows]
     /\ chosen' = [chosen EXCEPT ![c] = r.chosen]
     /\ rule' = [rule EXCEPT ![c] = r.rule]
     /\ IF r.kind = "url"
        THEN /\ pc' = [pc EXCEPT ![c] = "Resolved"]
             /\ outcome' = [outcome EXCEPT ![c] = [kind |-> "url", val |-> r.val]]
             /\ UNCHANGED <<indexError, thrown>>
        ELSE /\ pc' = [pc EXCEPT ![c] = "Failed"]
             /\ indexError' = [indexError EXCEPT ![c] = Some(r.val)]
             /\ outcome' = [outcome EXCEPT ![c] = [kind |-> "error", val |-> r.val]]
             /\ thrown' = [thrown EXCEPT ![c] = Append(@, r.val)]
  IN Continue(LegacyIndexResult(c, html))

LegacyHdrDone(c) ==
  /\ pc[c] = "LegacyAwaitHdr"
  /\ IF upstream.hdr.ok
     THEN /\ LegacyAfterIndexFetch(c, Some(upstream.hdr.body))
          /\ UNCHANGED fetches
     ELSE /\ pc' = [pc EXCEPT ![c] = "LegacyAwaitIdx"]
          /\ fetches' = [fetches EXCEPT ![c] =
                           Append(@, baseFolder \o cleanAccession(accession) \o "-index.html")]
          /\ UNCHANGED <<indexHtml, rows, chosen, rule, indexError, outcome, thrown>>
  /\ UNCHANGED <<calls, cik, accession, upstream, formRaw, trace, warnings>>

LegacyIdxDone(c) ==
  /\ pc[c] = "LegacyAwaitIdx"
  /\ IF upstream.idx.ok
     THEN LegacyAfterIndexFetch(c, Some(upstream.idx.body))
     ELSE LegacyAfterIndexFetch(c, None)
  /\ UNCHANGED <<calls, cik, accession, upstream, formRaw, trace, fetches, warnings>>

(* either server answers the request *)
NextPickers ==
  \/ \E c \in calls : Start(c) /\ UNCHANGED handlerVars
  \/ \E c \in calls : HdrDone(c) /\ UNCHANGED handlerVars
  \/ \E c \in calls : IdxDone(c) /\ UNCHANGED handlerVars
  \/ \E c \in calls : ListingDone(c) /\ UNCHANGED handlerVars
  \/ \E c \in calls : LegacyStart(c) /\ UNCHANGED handlerVars
  \/ \E c \in calls : LegacyHdrDone(c) /\ UNCHANGED handlerVars
  \/ \E c \in calls : LegacyIdxDone(c) /\ UNCHANGED handlerVars

(***************************************************************************)
(* The route handlers of the resolver-based server, /filing-pdf and        *)
(* /filing-xlsx.  A request is served by one resolvePrimaryUrl call, which *)
(* the handler starts; an absent query parameter is the empty string.      *)
(* Statuses are strings; "throw" is a fetch that rejects.                  *)
(***************************************************************************)
resolverVars == <<calls, cik, accession, upstream, formRaw, pc, trace, fetches, warnings,
                  indexHtml, rows, chosen, rule, indexError, outcome, thrown>>

(* !cik || !accession || !form *)
MissingParams(c) == cik = "" \/ accession = "" \/ formRaw[c] = ""

(* /\.pdf($|\?)/i.test(primaryUrl) *)
IsPdfUrl(url) == RegexTest(RxEnd(<<".pdf">>), url) \/ RegexTest(RxAny(<<".pdf?">>), url)

(* res.status(status).send(body), res.redirect(url): the handler is done *)
Respond(c, status, body) ==
  /\ responses' = [responses EXCEPT ![c] = Append(@, [status |-> status, body |-> body])]
  /\ handler' = [handler EXCEPT ![c] = "Done"]
  /\ UNCHANGED <<query, services, serviceCalls>>

(* fetch(PDFSHIFT_ENDPOINT, ...) or fetchText(url): the handler awaits it *)
CallService(c, service, source, option, next) ==
  /\ serviceCalls' = [serviceCalls EXCEPT ![c] =
                        Append(@, [service |-> service, source |-> source, option |-> option])]
  /\ handler' = [handler EXCEPT ![c] = next]
  /\ UNCHANGED <<query, services, responses>>

(* the primaryUrl the handler holds: None when the resolver returned undefined *)
PrimaryUrl(c) == IF outcome[c].kind = "url" THEN Some(outcome[c].val) ELSE None

(* /filing-pdf up to its first await: the checks and the call of the resolver *)
FilingPdfStart(c) ==
  /\ handler[c] = "Idle"
  /\ query[c].route = "pdf"
  /\ IF MissingParams(c)
     THEN Respond(c, "400", "Missing required query params") /\ UNCHANGED resolverVars
     ELSE IF ~services.configured
     THEN Respond(c, "500", "PDF API not configured") /\ UNCHANGED resolverVars
     ELSE /\ Start(c)
          /\ handler' = [handler EXCEPT ![c] = "Resolving"]
          /\ UNCHANGED <<query, services, serviceCalls, responses>>

(* the await of resolvePrimaryUrl yields or throws *)
FilingPdfResolved(c) ==
  /\ handler[c] = "Resolving"
  /\ query[c].route = "pdf"
  /\ pc[c] \in Terminal
  /\ IF pc[c] = "Failed" THEN Respond(c, "500", "Error generating PDF")
     ELSE IF PrimaryUrl(c) # None /\ IsPdfUrl(PrimaryUrl(c)[1])
     THEN Respond(c, "302", PrimaryUrl(c)[1])
     ELSE CallService(c, "pdf", PrimaryUrl(c), "use_print_css", "AwaitConv1")
  /\ UNCHANGED resolverVars

(* from  if (debug === "1")  after the conversion calls to the response *)
FilingPdfFinish(c, status) ==
  IF query[c].debug = "1"
  THEN IF services.textFails THEN Respond(c, "500", "Error generating PDF")
       ELSE Respond(c, status, "debug")
  ELSE IF status # "200" THEN Respond(c, "502", "Error from PDF service")
  ELSE Respond(c, "200", "pdf")

(* the first call of the PDF service completes *)
FilingPdfConv1Done(c) ==
  /\ handler[c] = "AwaitConv1"
  /\ IF services.conv1 = "throw" THEN Respond(c, "500", "Error generating PDF")
     ELSE IF services.conv1 = "400"
     THEN IF services.textFails THEN Respond(c, "500", "Error generating PDF")
          ELSE IF query[c].debug = "1" THEN Respond(c, "400", "debug")
          ELSE CallService(c, "pdf", PrimaryUrl(c), "use_print", "AwaitConv2")
     ELSE FilingPdfFinish(c, services.conv1)
  /\ UNCHANGED resolverVars

(* the second call of the PDF service completes *)
FilingPdfConv2Done(c) ==
  /\ handler[c] = "AwaitConv2"
  /\ IF services.conv2 = "throw" THEN Respond(c, "500", "Error generating PDF")
     ELSE FilingPdfFinish(c, services.conv2)
  /\ UNCHANGED resolverVars

(* a /filing-xlsx without the check of its query parameters *)
FilingXlsxStartNoCheck(c) ==
  /\ handler[c] = "Idle"
  /\ query[c].route = "xlsx"
  /\ Start(c)
  /\ handler' = [handler EXCEPT ![c] = "Resolving"]
  /\ UNCHANGED <<query, services, serviceCalls, responses>>

(* /filing-xlsx up to its first await *)
FilingXlsxStart(c) ==
  /\ handler[c] = "Idle"
  /\ query[c].route = "xlsx"
  /\ IF MissingParams(c)
     THEN Respond(c, "400", "Missing required query params") /\ UNCHANGED resolverVars
     ELSE /\ Start(c)
          /\ handler' = [handler EXCEPT ![c] = "Resolving"]
          /\ UNCHANGED <<query, services, serviceCalls, responses>>

FilingXlsxResolved(c) ==
  /\ handler[c] = "Resolving"
  /\ query[c].route = "xlsx"
  /\ pc[c] \in Terminal
  /\ IF pc[c] = "Failed" THEN Respond(c, "500", "Error generating XLSX")
     ELSE IF ~isHtmlName(OrEmpty(PrimaryUrl(c)))
     THEN Respond(c, "400", "Primary document is not HTML; no table to extract")
     ELSE CallService(c, "doc", PrimaryUrl(c), "", "AwaitDoc")
  /\ UNCHANGED resolverVars

(* the fetch of the document completes: the workbook is sent, or no table *)
FilingXlsxDocDone(c) ==
  /\ handler[c] = "AwaitDoc"
  /\ IF services.doc = "fail" THEN Respond(c, "500", "Error generating XLSX")
     ELSE IF services.doc = "noTable" THEN Respond(c, "400", "No table found in filing")
     ELSE Respond(c, "200", "xlsx")
  /\ UNCHANGED resolverVars

(* the server: requests arrive at the routes, and the resolver calls they  *)
(* started go on                                                           *)
NextHandlers ==
  \/ \E c \in calls : FilingPdfStart(c)
  \/ \E c \in calls : FilingXlsxStart(c)
  \/ \E c \in calls : HdrDone(c) /\ UNCHANGED handlerVars
  \/ \E c \in calls : IdxDone(c) /\ UNCHANGED handlerVars
  \/ \E c \in calls : ListingDone(c) /\ UNCHANGED handlerVars
  \/ \E c \in calls : FilingPdfResolved(c)
  \/ \E c \in calls : FilingPdfConv1Done(c)
  \/ \E c \in calls : FilingPdfConv2Done(c)
  \/ \E c \in calls : FilingXlsxResolved(c)
  \/ \E c \in calls : FilingXlsxDocDone(c)

(***************************************************************************)
(* Inputs.                                                                 *)
(***************************************************************************)
RECURSIVE StrsUpTo(_, _)
StrsUpTo(n, chars) ==
  IF n = 0 THEN {""}
  ELSE LET prev == StrsUpTo(n - 1, chars)
       IN prev \cup {s \o ch : s \in prev, ch \in chars}

RECURSIVE SeqsUpTo(_, _)
SeqsUpTo(n, pool) ==
  IF n = 0 THEN {<<>>}
  ELSE LET prev == SeqsUpTo(n - 1, pool)
       IN prev \cup {Append(s, x) : s \in prev, x \in pool}

ExampleCik == "0001683168"
ExampleAccession == "0001683168-25-008885"

IdChars == {"0", "1", "-"}
Ciks == StrsUpTo(MaxIdLen, IdChars) \cup {ExampleCik, "0010203"}
Accessions == StrsUpTo(MaxIdLen, IdChars) \cup {ExampleAccession}

DeterministicKeys ==
  {"3", "3/A", "4", "4/A", "5", "5/A", "144", "EFFECT", "1-K", "1K", "1-A", "1-A POS",
   "1-A/A", "1A", "C", "C-AR", "C-TR", "C-U", "C/A", "D", "QUALIF"}

(* index pages *)
Failed404 == [ok |-> FALSE, body |-> [empty |-> TRUE, tables |-> <<>>]]
Ok(body) == [ok |-> TRUE, body |-> body]
EmptyBody == [empty |-> TRUE, tables |-> <<>>]
Page(tables) == [empty |-> FALSE, tables |-> tables]
TableFile(trs) == [class |-> "tableFile", trs |-> trs]
PlainTable(trs) == [class |-> "", trs |-> trs]

HtmlNames == {"main.htm", "big.HTML"}
OtherNames == {"a10k.xml", "r.xml"}
TypeCells == {"10-k", "10-K/A"}

TrPool ==
  {<<f, t, "", s>> : f \in HtmlNames, t \in TypeCells, s \in {"500", "50,000", "n/a"}}
    \cup {<<f, t, "", s>> : f \in OtherNames, t \in TypeCells, s \in {"90,000 bytes", "n/a"}}
    \cup {<<"only">>, <<"  ", "10-K", "", "500">>, <<"r.xml", "EX-101", "filing data">>}

(* listing-service responses *)
Desc(filename, url, type) ==
  [null |-> FALSE, filename |-> filename, url |-> url, type |-> type]
NullDesc == [null |-> TRUE, filename |-> None, url |-> None, type |-> None]
ListingNotOk == [ok |-> FALSE, json |-> [kind |-> "invalid", files |-> <<>>]]
ListingJson(kind, files) == [ok |-> TRUE, json |-> [kind |-> kind, files |-> files]]

WorkerRoot == "https://sec-fillings.mariog.workers.dev/file/"
FilesHtml ==
  <<Desc(Some("0001-index.htm"), Some(WorkerRoot \o "0001-index.htm"), Some("html")),
    Desc(Some("form10k.htm"), Some(WorkerRoot \o "form10k.htm"), Some("html"))>>
FilesPdf ==
  <<Desc(Some("data.xml"), Some(WorkerRoot \o "data.xml"), Some("xml")),
    Desc(Some("scan.pdf"), Some(WorkerRoot \o "scan.pdf"), Some("pdf"))>>

ListingResponses ==
  {ListingNotOk, ListingJson("invalid", <<>>), ListingJson("object", <<>>),
   ListingJson("array", <<>>), ListingJson("array", FilesHtml), ListingJson("array", FilesPdf)}

InitResolver(cs) ==
  /\ calls = cs
  /\ pc = [c \in cs |-> "NotStarted"]
  /\ trace = [c \in cs |-> <<>>]
  /\ fetches = [c \in cs |-> <<>>]
  /\ warnings = [c \in cs |-> <<>>]
  /\ indexHtml = [c \in cs |-> None]
  /\ rows = [c \in cs |-> <<>>]
  /\ chosen = [c \in cs |-> None]
  /\ rule = [c \in cs |-> "none"]
  /\ indexError = [c \in cs |-> None]
  /\ outcome = [c \in cs |-> Pending]
  /\ thrown = [c \in cs |-> <<>>]

(* resolvePrimaryUrl called directly: no route handler is involved *)
NoHandler(cs) ==
  /\ query = [c \in cs |-> [route |-> "none", debug |-> ""]]
  /\ services = [configured |-> TRUE, conv1 |-> "200", conv2 |-> "200",
                 textFails |-> FALSE, doc |-> "table"]
  /\ handler = [c \in cs |-> "Idle"]
  /\ serviceCalls = [c \in cs |-> <<>>]
  /\ responses = [c \in cs |-> <<>>]

InitCalls(cs) == InitResolver(cs) /\ NoHandler(cs)

(***************************************************************************)
(* Spec: NumCalls calls on one filing, in any interleaving.                *)
(***************************************************************************)
SmallTrs ==
  <<<<"Document">>, <<"ex10k.htm", "EX-1", "", "900">>, <<"doc.htm", "10-K", "", "100">>>>
HdrResponses ==
  {Failed404, Ok(EmptyBody), Ok(Page(<<>>)), Ok(Page(<<PlainTable(<<<<"only">>>>)>>)),
   Ok(Page(<<PlainTable(<<<<"x.htm", "S-3">>>>), TableFile(SmallTrs)>>))}
IdxResponses ==
  {Failed404, Ok(Page(<<PlainTable(SmallTrs)>>)), Ok(Page(<<TableFile(<<>>)>>))}
FormInputs == {"4", " d ", "10-k", "S-3"}

Init ==
  /\ InitCalls(1..NumCalls)
  /\ cik = ExampleCik
  /\ accession = ExampleAccession
  /\ upstream \in [hdr : HdrResponses, idx : IdxResponses, listing : ListingResponses]
  /\ formRaw \in [1..NumCalls -> FormInputs]

Spec == Init /\ [][Next]_vars

(***************************************************************************)
(* SpecIds: one call, over the filer IDs and accession numbers.            *)
(***************************************************************************)
IdsForms == DeterministicKeys \cup {" 4/a ", "qualif", "10-K", "S-3"}
IdsUpstreams ==
  {[hdr |-> Failed404, idx |-> Ok(Page(<<TableFile(SmallTrs)>>)), listing |-> ListingNotOk],
   [hdr |-> Failed404, idx |-> Failed404, listing |-> ListingJson("array", FilesHtml)]}

InitIds ==
  /\ InitCalls({1})
  /\ cik \in Ciks
  /\ accession \in Accessions
  /\ upstream \in IdsUpstreams
  /\ formRaw \in [{1} -> IdsForms]

SpecIds == InitIds /\ [][Next]_vars

(***************************************************************************)
(* SpecIndex: one call, over the index tables of up to MaxRows rows.       *)
(***************************************************************************)
IndexForms == {"10-K", "S-3"}

InitIndex ==
  /\ InitCalls({1})
  /\ cik = ExampleCik
  /\ accession = ExampleAccession
  /\ formRaw \in [{1} -> IndexForms]
  /\ \/ \E trs \in SeqsUpTo(MaxRows, TrPool) :
          upstream = [hdr |-> Ok(Page(<<TableFile(trs)>>)), idx |-> Failed404,
                      listing |-> ListingNotOk]
     \/ \E trs \in SeqsUpTo(1, TrPool) :
          upstream = [hdr |-> Failed404, idx |-> Ok(Page(<<TableFile(trs)>>)),
                      listing |-> ListingJson("array", FilesPdf)]
     \/ upstream = [hdr |-> Failed404, idx |-> Failed404,
                    listing |-> ListingJson("array", FilesPdf)]

SpecIndex == InitIndex /\ [][Next]_vars

(***************************************************************************)
(* SpecPickers: one request, answered by the resolver or by the older      *)
(* server, over index tables whose rows carry descriptions.                *)
(***************************************************************************)
Descriptions == {"", "Form 10-k annual"}

DescTrPool ==
  {<<f, t, d, s>> : f \in HtmlNames, t \in TypeCells, d \in Descriptions, s \in {"500", "50,000"}}
    \cup {<<"a.xml", "10-K", "10-K data", "90,000">>, <<"x10k.htm", "EX-99", "", "100">>,
          <<"r.xml", "EX-101">>}

InitPickers ==
  /\ InitCalls({1})
  /\ cik = ExampleCik
  /\ accession = ExampleAccession
  /\ formRaw \in [{1} -> IndexForms]
  /\ \/ \E trs \in SeqsUpTo(MaxRows, DescTrPool) :
          upstream = [hdr |-> Ok(Page(<<TableFile(trs)>>)), idx |-> Failed404,
                      listing |-> ListingNotOk]
     \/ \E trs \in SeqsUpTo(1, DescTrPool) :
          upstream = [hdr |-> Failed404, idx |-> Ok(Page(<<PlainTable(trs)>>)),
                      listing |-> ListingJson("array", FilesPdf)]
     \/ upstream = [hdr |-> Failed404, idx |-> Failed404,
                    listing |-> ListingJson("array", FilesPdf)]

SpecPickers == InitPickers /\ [][NextPickers]_vars

(***************************************************************************)
(* SpecListing: one call whose index strategy fails, over the descriptor   *)
(* arrays of up to MaxFiles elements the listing service may answer with.  *)
(***************************************************************************)
UrlOf(name) == Some(WorkerRoot \o name)

ListingPool ==
  {Desc(Some("cloudastructure_i10k.htm"), UrlOf("cloudastructure_i10k.htm"), Some("html")),
   Desc(Some("form10k.htm"), UrlOf("form10k.htm"), Some("html")),
   Desc(Some("form10k.htm"), None, Some("html")),
   Desc(Some("0001-index.htm"), UrlOf("0001-index.htm"), Some("html")),
   Desc(Some("filing-header.html"), UrlOf("filing-header.html"), None),
   Desc(Some("main.htm"), UrlOf("main.htm"), None),
   Desc(Some("main.htm"), None, Some("html")),
   Desc(Some("scan.pdf"), UrlOf("scan.pdf"), Some("pdf")),
   Desc(Some("scan.pdf"), None, Some("pdf")),
   Desc(Some("data.xml"), UrlOf("data.xml"), Some("xml")),
   Desc(Some("data.xml"), None, Some("xml")),
   NullDesc}

InitListing ==
  /\ InitCalls({1})
  /\ cik = ExampleCik
  /\ accession = ExampleAccession
  /\ formRaw \in [{1} -> IndexForms]
  /\ \E files \in SeqsUpTo(MaxFiles, ListingPool), idx \in {Failed404, Ok(EmptyBody)} :
       upstream = [hdr |-> Failed404, idx |-> idx, listing |-> ListingJson("array", files)]

SpecListing == InitListing /\ [][Next]_vars

(***************************************************************************)
(* SpecPatterns: one call, over index tables whose filenames match the     *)
(* first, the second or no expression of the requested form.               *)
(***************************************************************************)
PatternNames == {"a10k.xml", "cloudastructure_i10k.htm", "main.htm", "cloudastructure_8k.htm"}

PatternTrPool == {<<f, t, "", "100">> : f \in PatternNames, t \in {"10-K", "EX-99"}}

InitPatterns ==
  /\ InitCalls({1})
  /\ cik = ExampleCik
  /\ accession = ExampleAccession
  /\ formRaw \in [{1} -> {"10-K", "8-K", "S-3"}]
  /\ \/ \E trs \in SeqsUpTo(MaxRows, PatternTrPool) :
          upstream = [hdr |-> Ok(Page(<<TableFile(trs)>>)), idx |-> Failed404,
                      listing |-> ListingNotOk]
     \/ \E trs \in SeqsUpTo(1, PatternTrPool) :
          upstream = [hdr |-> Failed404, idx |-> Ok(Page(<<PlainTable(trs)>>)),
                      listing |-> ListingJson("array", FilesPdf)]

SpecPatterns == InitPatterns /\ [][Next]_vars

(***************************************************************************)
(* SpecTables: one call, over index pages of zero, one or two tables, with *)
(* and without the tableFile class, whose rows may lack cells or filename. *)
(***************************************************************************)
TablePool ==
  {<<"only">>, <<"  ", "10-K", "", "500">>, <<"main.htm", "10-K", "", "500">>,
   <<"r.xml", "EX-101">>}

TablesOf(trsSet) == {TableFile(trs) : trs \in trsSet} \cup {PlainTable(trs) : trs \in trsSet}

InitTables ==
  /\ InitCalls({1})
  /\ cik = ExampleCik
  /\ accession = ExampleAccession
  /\ formRaw \in [{1} -> {"10-K"}]
  /\ \E first \in TablesOf(SeqsUpTo(MaxRows, TablePool)),
        second \in TablesOf(SeqsUpTo(1, TablePool)),
        page \in {"none", "one", "two"}, viaHdr \in BOOLEAN :
       LET body == Page(CASE page = "none" -> <<>>
                          [] page = "one" -> <<first>>
                          [] page = "two" -> <<first, second>>)
       IN upstream = [hdr |-> IF viaHdr THEN Ok(body) ELSE Failed404,
                      idx |-> IF viaHdr THEN Failed404 ELSE Ok(body),
                      listing |-> ListingJson("array", FilesPdf)]

SpecTables == InitTables /\ [][Next]_vars

(***************************************************************************)
(* SpecHandlers: one request to /filing-pdf or /filing-xlsx, with and      *)
(* without its query parameters, over the answers of the SEC pages, the    *)
(* listing service, the PDF service and the document fetch.                *)
(***************************************************************************)
FilesPdfQuery ==
  <<Desc(Some("SCAN.PDF"), Some(WorkerRoot \o "SCAN.PDF?dl=1"), Some("pdf"))>>

FilesNoUrl == <<Desc(Some("main.htm"), None, Some("html"))>>

HandlerUpstreams ==
  {[hdr |-> Ok(Page(<<TableFile(SmallTrs)>>)), idx |-> Failed404, listing |-> ListingNotOk],
   [hdr |-> Failed404, idx |-> Failed404, listing |-> ListingNotOk],
   [hdr |-> Failed404, idx |-> Failed404, listing |-> ListingJson("array", FilesPdf)],
   [hdr |-> Failed404, idx |-> Failed404, listing |-> ListingJson("array", FilesPdfQuery)],
   [hdr |-> Failed404, idx |-> Failed404, listing |-> ListingJson("array", FilesNoUrl)]}

ServiceAnswers ==
  [configured : BOOLEAN, conv1 : {"throw", "200", "400", "500"},
   conv2 : {"throw", "200", "400"}, textFails : BOOLEAN, doc : {"fail", "noTable", "table"}]

InitHandlers ==
  /\ InitResolver({1})
  /\ \E missing \in {"none", "cik", "accession", "form"} :
       /\ cik = IF missing = "cik" THEN "" ELSE ExampleCik
       /\ accession = IF missing = "accession" THEN "" ELSE ExampleAccession
       /\ formRaw \in [{1} -> IF missing = "form" THEN {""} ELSE {"4", "10-K"}]
  /\ upstream \in HandlerUpstreams
  /\ query \in [{1} -> [route : {"pdf", "xlsx"}, debug : {"", "1"}]]
  /\ services \in ServiceAnswers
  /\ handler = [c \in {1} |-> "Idle"]
  /\ serviceCalls = [c \in {1} |-> <<>>]
  /\ responses = [c \in {1} |-> <<>>]

SpecHandlers == InitHandlers /\ [][NextHandlers]_vars

(***************************************************************************)
(* SpecCase: two calls on one filing whose form arguments differ in letter *)
(* case and in spaces around them, over index tables with type cells in    *)
(* either case.                                                            *)
(***************************************************************************)
Pads == {"", " ", "  "}

(* the spellings of a form string: its case changed, spaces put around it *)
Spellings(f) ==
  {l \o v \o r : l \in Pads, r \in Pads, v \in {f, toUpperCase(f), toLowerCase(f)}}

CaseTrs ==
  <<<<"doc.htm", "10-k", "", "100">>, <<"reg.htm", "s-3", "", "100">>,
    <<"big.htm", "EX-99", "", "900">>>>

CaseUpstreams ==
  {[hdr |-> Ok(Page(<<TableFile(CaseTrs)>>)), idx |-> Failed404, listing |-> ListingNotOk],
   [hdr |-> Failed404, idx |-> Ok(Page(<<PlainTable(SmallTrs)>>)), listing |-> ListingNotOk],
   [hdr |-> Failed404, idx |-> Failed404, listing |-> ListingJson("array", FilesHtml)],
   [hdr |-> Failed404, idx |-> Failed404, listing |-> ListingNotOk]}

InitCase ==
  /\ InitCalls({1, 2})
  /\ cik = ExampleCik
  /\ accession = ExampleAccession
  /\ upstream \in CaseUpstreams
  /\ \E f \in {"4/a", "d", "10-K", "s-3", "Sc 13D"} :
       \E g \in Spellings(f) : formRaw = [c \in {1, 2} |-> IF c = 1 THEN f ELSE g]

SpecCase == InitCase /\ [][Next]_vars

(***************************************************************************)
(* SpecLive: NumCalls calls in any interleaving, where every fetch that    *)
(* has been issued completes: the completion of a request that is awaited  *)
(* is not postponed forever.  When a call is started is up to its caller.  *)
(***************************************************************************)
OneRow == Page(<<TableFile(<<<<"a", "4">>>>)>>)
NoValidRow == Page(<<TableFile(<<<<"a">>>>)>>)
OneFile == <<Desc(Some("a"), Some("u"), None)>>

LiveUpstreams ==
  {[hdr |-> Ok(OneRow), idx |-> Failed404, listing |-> ListingNotOk],
   [hdr |-> Failed404, idx |-> Ok(Page(<<>>)), listing |-> ListingJson("invalid", <<>>)],
   [hdr |-> Failed404, idx |-> Ok(Page(<<>>)), listing |-> ListingJson("array", OneFile)],
   [hdr |-> Ok(EmptyBody), idx |-> Ok(NoValidRow), listing |-> ListingJson("array", <<>>)],
   [hdr |-> Ok(NoValidRow), idx |-> Failed404, listing |-> ListingJson("object", <<>>)],
   [hdr |-> Ok(EmptyBody), idx |-> Ok(EmptyBody), listing |-> ListingJson("array", OneFile)],
   [hdr |-> Failed404, idx |-> Failed404, listing |-> ListingNotOk]}

InitLive ==
  /\ InitCalls(1..NumCalls)
  /\ cik = "07"
  /\ accession = "1-2"
  /\ upstream \in LiveUpstreams
  /\ formRaw \in {[c \in 1..NumCalls |-> f] : f \in {"4", "S-3"}}

FetchesComplete ==
  \A c \in 1..NumCalls :
    /\ WF_vars(HdrDone(c) /\ UNCHANGED handlerVars)
    /\ WF_vars(IdxDone(c) /\ UNCHANGED handlerVars)
    /\ WF_vars(ListingDone(c) /\ UNCHANGED handlerVars)

SpecLive == InitLive /\ [][Next]_vars /\ FetchesComplete

(***************************************************************************)
(* SpecForms: one call, over the form types of the fixed-path families.    *)
(***************************************************************************)
OwnershipForms == {"3", "3/A", "4", "4/A", "5", "5/A"}
Schedule13Forms == {"SC 13D", "SC 13D/A", "SC 13G", "SC 13G/A"}
FormCFamily == {"C", "C/A", "C-U", "C-AR", "C-TR"}
RegulationAForms == {"1-A", "1-A/A", "1-A POS", "1-K"}

FixedPathForms ==
  OwnershipForms \cup Schedule13Forms \cup {"D"} \cup FormCFamily \cup {"144", "EFFECT"}
    \cup RegulationAForms \cup {"QUALIF"}

InitForms ==
  /\ InitCalls({1})
  /\ cik = ExampleCik
  /\ accession = ExampleAccession
  /\ formRaw \in [{1} -> FixedPathForms \cup {"10-K", " sc 13d ", "qualif"}]
  /\ upstream \in [hdr : HdrResponses, idx : IdxResponses,
                    listing : {ListingNotOk, ListingJson("array", FilesHtml)}]

SpecForms == InitForms /\ [][Next]_vars

(***************************************************************************)
(* Properties.                                                             *)
(***************************************************************************)
Base == secArchiveBase(cik, accession)

Started(c) == pc[c] # "NotStarted"

IsPrefix(s, t) == Len(s) <= Len(t) /\ SubSeq(t, 1, Len(s)) = s

Occurrences(seq, x) == Cardinality({i \in 1..Len(seq) : seq[i] = x})

EndsWithNoCase(name, ext) ==
  Len(name) >= Len(ext)
    /\ toLowerCase(SubSeq(name, Len(name) - Len(ext) + 1, Len(name))) = toLowerCase(ext)

(* the fixed path of a form of the deterministic map *)
DeterministicPath(key) ==
  CASE key \in {"3", "3/A"} -> "xslF345X02/ownership.xml"
    [] key \in {"4", "4/A"} -> "xslF345X05/ownership.xml"
    [] key \in {"5", "5/A"} -> "xslF345X03/ownership.xml"
    [] key = "144" -> "xsl144X01/primary_doc.xml"
    [] key = "EFFECT" -> "xslEFFECTX01/primary_doc.xml"
    [] key \in {"1-K", "1K"} -> "xsl1-K_X01/primary_doc.xml"
    [] key \in {"1-A", "1-A POS", "1-A/A", "1A"} -> "xsl1-A_X01/primary_doc.xml"
    [] key \in {"C", "C-AR", "C-TR", "C-U", "C/A"} -> "xslC_X01/primary_doc.xml"
    [] key = "D" -> "xslFormDX01/primary_doc.xml"
    [] key = "QUALIF" -> "xslQUALIFX01/primary_doc.xml"

(* C1: a call whose trimmed, upper-cased form is a key of the deterministic *)
(* map is Resolved as soon as it has started, has requested no URL at all, *)
(* and yields exactly the folder URL followed by the mapped path.          *)
C1_DeterministicNoFetch ==
  \A c \in calls :
    (Started(c) /\ formUpperOf(c) \in DeterministicKeys) =>
      /\ pc[c] = "Resolved"
      /\ fetches[c] = <<>>
      /\ outcome[c] = [kind |-> "url", val |-> Base \o DeterministicPath(formUpperOf(c))]

C1_Witness ==
  \E c \in calls :
    /\ formRaw[c] = " 4/a "
    /\ cik = ExampleCik
    /\ pc[c] = "Resolved"
    /\ outcome[c].val = Base \o "xslF345X05/ownership.xml"

(* the filer ID without its leading zeros: the suffix left after a run of *)
(* zeros that does not itself start with a zero                           *)
IsLeadingZerosRemoved(raw, out) ==
  \E k \in 0..Len(raw) :
    /\ out = SubSeq(raw, k + 1, Len(raw))
    /\ \A i \in 1..k : CharAt(raw, i) = "0"
    /\ out = "" \/ CharAt(out, 1) # "0"

(* the accession number without its dashes: the characters that are not a *)
(* dash, all of them and in their order                                   *)
IsDashesRemoved(raw, out) ==
  LET keep == {i \in 1..Len(raw) : CharAt(raw, i) # "-"}
      nth(j) == CHOOSE i \in keep : Cardinality({m \in keep : m <= i}) = j
  IN /\ Len(out) = Cardinality(keep)
     /\ \A j \in 1..Len(out) : CharAt(out, j) = CharAt(raw, nth(j))

(* C2: the folder URL is the archive root, the filer ID without its        *)
(* leading zeros (and nothing else removed), a slash, the accession number *)
(* without its dashes (every other character kept), and a slash; every URL *)
(* a call builds starts with it; filer 0001683168 with accession           *)
(* 0001683168-25-008885 gives .../1683168/000168316825008885/.             *)
C2_FolderUrl ==
  /\ \E f \in {SubSeq(cik, k + 1, Len(cik)) : k \in 0..Len(cik)} :
       /\ IsLeadingZerosRemoved(cik, f)
       /\ Len(Base) > Len(ArchiveRoot) + Len(f)
       /\ SubSeq(Base, 1, Len(ArchiveRoot) + Len(f) + 1) = ArchiveRoot \o f \o "/"
       /\ CharAt(Base, Len(Base)) = "/"
       /\ IsDashesRemoved(accession,
                          SubSeq(Base, Len(ArchiveRoot) + Len(f) + 2, Len(Base) - 1))
  /\ (cik = ExampleCik /\ accession = ExampleAccession) =>
       Base = "https://www.sec.gov/Archives/edgar/data/1683168/000168316825008885/"
  /\ \A c \in calls :
       /\ (pc[c] = "Resolved" /\ fetches[c] = <<>>) => IsPrefix(Base, outcome[c].val)
       /\ fetches[c] # <<>> => IsPrefix(Base, fetches[c][1])

C2_Witness ==
  /\ cik = "0010203"
  /\ accession = ExampleAccession
  /\ Base = "https://www.sec.gov/Archives/edgar/data/10203/000168316825008885/"
  /\ \E c \in calls : fetches[c] # <<>> /\ pc[c] = "Resolved"

Strategies == <<"TryDeterministic", "TryIndex", "TryListing">>

C3_Order ==
  \A c \in calls :
    /\ IsPrefix(trace[c], Strategies)
    /\ Started(c) <=> trace[c] # <<>>
    /\ "TryIndex" \in {trace[c][i] : i \in 1..Len(trace[c])} =>
         /\ formUpperOf(c) \notin DeterministicKeys
         /\ fetches[c] # <<>>
    /\ "TryListing" \in {trace[c][i] : i \in 1..Len(trace[c])} =>
         /\ indexError[c] # None
         /\ fetches[c][Len(fetches[c])] = listingUrl
    /\ pc[c] \in {"AwaitHdr", "AwaitIdx"} => Len(trace[c]) = 2
    /\ pc[c] = "AwaitListing" => Len(trace[c]) = 3

C3_Steps ==
  \A c \in calls :
    /\ IsPrefix(trace[c], trace'[c])
    /\ IsPrefix(fetches[c], fetches'[c])
    /\ pc[c] \in Terminal =>
         /\ pc'[c] = pc[c]
         /\ trace'[c] = trace[c]
         /\ fetches'[c] = fetches[c]
         /\ outcome'[c] = outcome[c]

(* C3: the strategies a call has entered are always a prefix of            *)
(* TryDeterministic, TryIndex, TryListing: the index strategy is entered   *)
(* only for a form the deterministic map lacks, the listing strategy only  *)
(* after the index strategy threw; a step only extends the strategies and  *)
(* requests, and a Resolved or Failed call takes no further step.          *)
C3_StrategyOrder == [] C3_Order /\ [][C3_Steps]_vars

C3_Witness ==
  \E c \in calls : pc[c] = "Failed" /\ trace[c] = Strategies /\ Len(fetches[c]) = 3

IndexErrors ==
  {"Could not fetch SEC index page", "No table found in SEC index",
   "No document rows found in SEC index"}

ListingUrls ==
  IF upstream.listing.ok /\ upstream.listing.json.kind = "array"
  THEN {upstream.listing.json.files[i].url : i \in 1..Len(upstream.listing.json.files)}
  ELSE {}

(* the index strategy of call c has run and has ended without a URL *)
IndexHasFailed(c) ==
  /\ pc[c] \in {"AwaitListing", "Resolved", "Failed"}
  /\ fetches[c] # <<>>
  /\ \/ ~upstream.hdr.ok /\ ~upstream.idx.ok
     \/ chosen[c] = None

(* C4: when the index strategy of a call has failed, the error is the one  *)
(* warning of the call, the listing service has been requested, and what   *)
(* the caller gets is from the listing strategy: one of its URLs or one of *)
(* its errors, never an index error.                                       *)
C4_IndexFailureRecovered ==
  \A c \in calls :
    IndexHasFailed(c) =>
      /\ indexError[c] # None
      /\ indexError[c][1] \in IndexErrors
      /\ warnings[c] = <<indexError[c][1]>>
      /\ Occurrences(fetches[c], listingUrl) = 1
      /\ outcome[c].val \notin IndexErrors
      /\ \A i \in 1..Len(thrown[c]) : thrown[c][i] \notin IndexErrors
      /\ pc[c] = "Resolved" => outcome[c].kind \in {"url", "undefined"}
      /\ outcome[c].kind = "url" => Some(outcome[c].val) \in ListingUrls
      /\ pc[c] = "Failed" => (outcome[c].kind = "error" /\ thrown[c] = <<outcome[c].val>>)

C4_Witness ==
  \E c \in calls :
    /\ indexError[c] = Some("No table found in SEC index")
    /\ pc[c] = "Resolved"
    /\ outcome[c].kind = "url"

ListingFails ==
  \/ ~upstream.listing.ok
  \/ upstream.listing.json.kind # "array"
  \/ upstream.listing.json.files = <<>>

C5_Failed ==
  \A c \in calls :
    (indexError[c] # None /\ ListingFails /\ pc[c] # "AwaitListing") =>
      /\ pc[c] = "Failed"
      /\ outcome[c].kind = "error"
      /\ Len(thrown[c]) = 1
      /\ \A u \in {hdrUrl, idxUrl, listingUrl} : Occurrences(fetches[c], u) <= 1
      /\ fetches[c][Len(fetches[c])] = listingUrl

C5_NoRetry ==
  \A c \in calls :
    /\ Occurrences(fetches'[c], listingUrl) <= 1
    /\ pc[c] = "Failed" => (pc'[c] = "Failed" /\ fetches'[c] = fetches[c] /\ thrown'[c] = thrown[c])

(* C5: when the listing service fails (not a success response, a body that *)
(* is not an array, an empty array) after the index strategy failed, the   *)
(* call is Failed with exactly one error for the caller, every URL was     *)
(* requested at most once, and the Failed call requests nothing more.      *)
C5_ListingFailureTerminal == [] C5_Failed /\ [][C5_NoRetry]_vars

C5_Witness ==
  \E c \in calls :
    /\ pc[c] = "Failed"
    /\ upstream.listing.ok
    /\ upstream.listing.json.files = <<>>
    /\ thrown[c] = <<"No files from worker">>

C6_SameOutcome ==
  \A c, d \in calls :
    (formRaw[c] = formRaw[d] /\ pc[c] \in Terminal /\ pc[d] \in Terminal) =>
      /\ pc[c] = pc[d]
      /\ outcome[c] = outcome[d]
      /\ chosen[c] = chosen[d]

C6_NothingLeftBehind ==
  /\ UNCHANGED <<cik, accession, upstream, formRaw>>
  /\ \A c, d \in calls :
       (c # d /\ pc'[c] # pc[c]) =>
         /\ pc'[d] = pc[d]
         /\ outcome'[d] = outcome[d]
         /\ rows'[d] = rows[d]

(* C6: two calls with the same form on the same filing, one after the     *)
(* other or interleaved, end in the same outcome with the same URL; a step *)
(* of one call changes neither the inputs and upstream responses nor the   *)
(* locals of another call.                                                 *)
C6_Deterministic == [] C6_SameOutcome /\ [][C6_NothingLeftBehind]_vars

C6_Witness ==
  \E c, d \in calls :
    /\ c # d
    /\ formRaw[c] = "10-k" /\ formRaw[d] = "10-k"
    /\ pc[c] = "Resolved" /\ pc[d] = "Resolved"
    /\ rule[c] = "pattern" /\ rule[d] = "pattern"
    /\ outcome[c].val = Base \o "ex10k.htm"

(***************************************************************************)
(* Properties of the index selection.                                      *)
(***************************************************************************)
ViaIndex(c) == pc[c] = "Resolved" /\ chosen[c] # None

RowIdx(c) == 1..Len(rows[c])

IsHtmlFile(name) == EndsWithNoCase(name, ".htm") \/ EndsWithNoCase(name, ".html")

MatchesPattern(c, r) ==
  \E k \in 1..Len(FORM_FILENAME_PATTERNS(formUpperOf(c))) :
    RegexTest(FORM_FILENAME_PATTERNS(formUpperOf(c))[k], r.document)

PatternIdx(c) == {i \in RowIdx(c) : MatchesPattern(c, rows[c][i])}
SameTypeIdx(c) == {i \in RowIdx(c) : rows[c][i].type = formUpperOf(c)}
HtmlIdx(c) == {i \in RowIdx(c) : IsHtmlFile(rows[c][i].document)}

LargestIn(c, i, S) == \A j \in S : NumCompare(rows[c][j].size, rows[c][i].size) <= 0

IsLegacy(c) == trace[c] = <<"LegacyIndex">>

DescIdx(c) ==
  {i \in RowIdx(c) : includes(toUpperCase(rows[c][i].description), formUpperOf(c))}

(* the exact-type rule is the one that chooses: the resolver reaches it    *)
(* when no filename pattern hits, the older picker starts with it          *)
ExactTypeHtmlCase(c) ==
  /\ ViaIndex(c)
  /\ IsLegacy(c) \/ PatternIdx(c) = {}
  /\ SameTypeIdx(c) \cap HtmlIdx(c) # {}

C7_Original ==
  \A c \in calls :
    ExactTypeHtmlCase(c) =>
      \E i \in SameTypeIdx(c) \cap HtmlIdx(c) :
        /\ chosen[c] = Some(rows[c][i])
        /\ LargestIn(c, i, SameTypeIdx(c) \cap HtmlIdx(c))

(* the HTML rows of the requested type among which the size decides *)
SizeCandidates(c) ==
  IF IsLegacy(c) /\ SameTypeIdx(c) \cap HtmlIdx(c) \cap DescIdx(c) # {}
  THEN SameTypeIdx(c) \cap HtmlIdx(c) \cap DescIdx(c)
  ELSE SameTypeIdx(c) \cap HtmlIdx(c)

(* C7: in the exact-type rule, when some row of the requested type is an   *)
(* .htm/.html file, the chosen row is an HTML row of that type and never a *)
(* non-HTML one; in the resolver its size is the largest of all HTML rows  *)
(* of that type, wherever it stands in the table; in the older picker,     *)
(* when some HTML row of the type has a description containing the form,   *)
(* the chosen row is one of those and the largest of those only.           *)
C7_LargestSameTypeHtml ==
  \A c \in calls :
    ExactTypeHtmlCase(c) =>
      /\ \E i \in SizeCandidates(c) :
           /\ chosen[c] = Some(rows[c][i])
           /\ LargestIn(c, i, SizeCandidates(c))
      /\ outcome[c] = [kind |-> "url", val |-> Base \o chosen[c][1].document]

C7_Witness ==
  \E c \in calls :
    /\ ExactTypeHtmlCase(c)
    /\ IsLegacy(c)
    /\ Len(rows[c]) = 2
    /\ SameTypeIdx(c) \cap HtmlIdx(c) = {1, 2}
    /\ DescIdx(c) = {1}
    /\ rows[c][1].size = [n |-> 500, d |-> 0] /\ rows[c][2].size = [n |-> 50000, d |-> 0]
    /\ chosen[c] = Some(rows[c][1])

(* the one .htm row among rows that are otherwise all .xml *)
OnlyHtmIdx(c) ==
  {i \in RowIdx(c) :
     /\ EndsWithNoCase(rows[c][i].document, ".htm")
     /\ \A j \in RowIdx(c) \ {i} : EndsWithNoCase(rows[c][j].document, ".xml")}

C8_Original ==
  \A c \in calls :
    (ViaIndex(c) /\ SameTypeIdx(c) = {}) =>
      \A i \in OnlyHtmIdx(c) : chosen[c] = Some(rows[c][i])

(* C8: when no row has the requested type, exactly one row is an .htm file *)
(* and all other rows are .xml files none of which matches a filename      *)
(* pattern of the requested form, the .htm row is chosen.                  *)
C8_OnlyHtmChosen ==
  \A c \in calls :
    (ViaIndex(c) /\ SameTypeIdx(c) = {}) =>
      \A i \in OnlyHtmIdx(c) :
        (PatternIdx(c) \subseteq {i}) =>
          /\ chosen[c] = Some(rows[c][i])
          /\ outcome[c] = [kind |-> "url", val |-> Base \o rows[c][i].document]

C8_Witness ==
  \E c \in calls :
    /\ ViaIndex(c)
    /\ SameTypeIdx(c) = {}
    /\ Len(rows[c]) = 2
    /\ rows[c][1].document = "r.xml" /\ rows[c][2].document = "main.htm"
    /\ chosen[c] = Some(rows[c][2])

NoDigit(text) == \A i \in 1..Len(text) : CharAt(text, i) \notin CharsOf(DigitChars)

(* every size cell of the page is absent or holds no number *)
SizesUnparsable(body) ==
  \A t \in 1..Len(body.tables) :
    \A i \in 1..Len(body.tables[t].trs) :
      Len(body.tables[t].trs[i]) < 4 \/ NoDigit(body.tables[t].trs[i][4])

HasValidTr(body) ==
  \E t \in 1..Len(body.tables) :
    \E i \in 1..Len(body.tables[t].trs) :
      Len(body.tables[t].trs[i]) >= 2 /\ trim(body.tables[t].trs[i][1]) # ""

First(S) == CHOOSE i \in S : \A j \in S : i <= j

FirstCandidate(c) ==
  IF SameTypeIdx(c) \cap HtmlIdx(c) # {} THEN First(SameTypeIdx(c) \cap HtmlIdx(c))
  ELSE IF SameTypeIdx(c) # {} THEN First(SameTypeIdx(c))
  ELSE IF HtmlIdx(c) # {} THEN First(HtmlIdx(c))
  ELSE 1

(* C9: when no size cell of the fetched index table holds a number (or the *)
(* cell is absent) and the table has a valid row, every parsed row has     *)
(* size 0, the index strategy ends without an error, and the chosen row is *)
(* a filename-pattern hit if there is one, otherwise the first row in      *)
(* table order of the same-type HTML rows, else of the same-type rows,     *)
(* else of the HTML rows, else of all rows.                                *)
C9_UnparsableSizes ==
  \A c \in calls :
    (indexHtml[c] # None /\ ~indexHtml[c][1].empty /\ SizesUnparsable(indexHtml[c][1])
       /\ HasValidTr(indexHtml[c][1])) =>
      /\ ViaIndex(c)
      /\ indexError[c] = None
      /\ rows[c] # <<>>
      /\ \A i \in RowIdx(c) : rows[c][i].size = Zero
      /\ IF PatternIdx(c) # {}
         THEN \E i \in PatternIdx(c) : chosen[c] = Some(rows[c][i])
         ELSE chosen[c] = Some(rows[c][FirstCandidate(c)])

C9_Witness ==
  \E c \in calls :
    /\ indexHtml[c] # None
    /\ SizesUnparsable(indexHtml[c][1])
    /\ Len(rows[c]) = 2
    /\ PatternIdx(c) = {}
    /\ SameTypeIdx(c) \cap HtmlIdx(c) = {1, 2}
    /\ rows[c][1].document # rows[c][2].document
    /\ chosen[c] = Some(rows[c][1])

(* C10: the four rules apply in strict priority.  A filename-pattern hit   *)
(* is chosen even when a row of the requested type exists; without a hit,  *)
(* a row of the requested type is chosen even when a larger HTML row of    *)
(* another type exists; the largest-HTML rule is taken only when no row    *)
(* has the requested type; the first-row rule only when no pattern hits,   *)
(* no type matches and no row is HTML.                                     *)
C10_RulePriority ==
  \A c \in calls :
    ViaIndex(c) =>
      /\ PatternIdx(c) # {} =>
           (rule[c] = "pattern" /\ \E i \in PatternIdx(c) : chosen[c] = Some(rows[c][i]))
      /\ (PatternIdx(c) = {} /\ SameTypeIdx(c) # {}) =>
           (rule[c] \in {"typeHtml", "typeFirst"}
              /\ \E i \in SameTypeIdx(c) : chosen[c] = Some(rows[c][i]))
      /\ rule[c] = "anyHtml" =>
           /\ PatternIdx(c) = {} /\ SameTypeIdx(c) = {}
           /\ \E i \in HtmlIdx(c) : chosen[c] = Some(rows[c][i]) /\ LargestIn(c, i, HtmlIdx(c))
      /\ rule[c] = "firstRow" =>
           /\ PatternIdx(c) = {} /\ SameTypeIdx(c) = {} /\ HtmlIdx(c) = {}
           /\ chosen[c] = Some(rows[c][1])

C10_Witness ==
  \E c \in calls :
    /\ ViaIndex(c)
    /\ rule[c] = "pattern"
    /\ chosen[c][1].type # formUpperOf(c)
    /\ \E i \in SameTypeIdx(c) \cap HtmlIdx(c) : rows[c][i].document # chosen[c][1].document

(***************************************************************************)
(* Properties of what the caller receives.                                 *)
(***************************************************************************)
IsAbsoluteUrl(val) == IsPrefix("https://", val) /\ Len(val) > Len("https://")

(* C11: a call that ended in Resolved handed its caller a non-empty        *)
(* absolute URL string, whichever strategy produced it; in particular the  *)
(* listing strategy does not resolve with an undefined url.                *)
C11_ResolvedIsUrl ==
  \A c \in calls :
    pc[c] = "Resolved" => (outcome[c].kind = "url" /\ IsAbsoluteUrl(outcome[c].val))

(* C12: a request for a form type of the families with a fixed path        *)
(* (ownership 3/4/5 and amendments, Schedule 13, Form D, the Form C        *)
(* family, 144, EFFECT, Regulation A, QUALIF) is resolved in               *)
(* TryDeterministic and never enters TryIndex.                             *)
C12_FamiliesDeterministic ==
  \A c \in calls :
    (Started(c) /\ toUpperCase(trim(formRaw[c])) \in FixedPathForms) =>
      /\ pc[c] = "Resolved"
      /\ trace[c] = <<"TryDeterministic">>
      /\ fetches[c] = <<>>

(***************************************************************************)
(* Properties of the URLs a call requests.                                 *)
(***************************************************************************)
ListingPrefix == "https://sec-fillings.mariog.workers.dev/filing?accession="

EndsWith(s, suffix) ==
  Len(s) >= Len(suffix) /\ SubSeq(s, Len(s) - Len(suffix) + 1, Len(s)) = suffix

(* url is the folder URL, the accession number without dashes, and suffix *)
IsIndexUrl(url, suffix) ==
  /\ IsPrefix(Base, url)
  /\ EndsWith(url, suffix)
  /\ Len(url) >= Len(Base) + Len(suffix)
  /\ IsDashesRemoved(accession, SubSeq(url, Len(Base) + 1, Len(url) - Len(suffix)))

(* url asks the listing service for the accession number without dashes *)
IsNormalizedListingUrl(url) ==
  /\ IsPrefix(ListingPrefix, url)
  /\ IsDashesRemoved(accession, SubSeq(url, Len(ListingPrefix) + 1, Len(url)))

(* C13: every URL a call requests is built from the normalized values: an  *)
(* index-page URL is the folder URL followed by the accession number       *)
(* without dashes, and the listing-service URL carries the accession       *)
(* number without dashes, never the raw one.                               *)
C13_UrlsNormalized ==
  \A c \in calls :
    \A i \in 1..Len(fetches[c]) :
      \/ IsIndexUrl(fetches[c][i], "-index-headers.html")
      \/ IsIndexUrl(fetches[c][i], "-index.html")
      \/ IsNormalizedListingUrl(fetches[c][i])

(***************************************************************************)
(* Properties of concurrent calls.                                         *)
(***************************************************************************)
(* the body the index strategy parses when nothing else is in flight *)
AloneIndexHtml ==
  IF upstream.hdr.ok THEN Some(upstream.hdr.body)
  ELSE IF upstream.idx.ok THEN Some(upstream.idx.body)
  ELSE None

(* what resolvePrimaryUrl hands its caller when the call runs alone, one   *)
(* statement after the other, against the upstream responses               *)
AloneOutcome(form) ==
  LET formUpper == toUpperCase(trim(form))
      FromListing(w) ==
        IF w.kind = "throw" THEN [kind |-> "error", val |-> w.val] ELSE w
      FromIndex(r) ==
        IF r.kind = "url" THEN [kind |-> "url", val |-> r.val]
        ELSE FromListing(WorkerFromResponse(upstream.listing, formUpper))
      FromHtml(html) ==
        IF html = None \/ html[1].empty
        THEN FromListing(WorkerFromResponse(upstream.listing, formUpper))
        ELSE FromIndex(IndexFromBody(Base, html[1], formUpper))
  IN IF formUpper \in DeterministicKeys
     THEN [kind |-> "url", val |-> Base \o DeterministicPath(formUpper)]
     ELSE FromHtml(AloneIndexHtml)

C14_AsAlone ==
  \A c \in calls : pc[c] \in Terminal => outcome[c] = AloneOutcome(formRaw[c])

(* the locals of call d are left as they are *)
Untouched(d) ==
  /\ pc'[d] = pc[d] /\ trace'[d] = trace[d] /\ fetches'[d] = fetches[d]
  /\ warnings'[d] = warnings[d] /\ indexHtml'[d] = indexHtml[d] /\ rows'[d] = rows[d]
  /\ chosen'[d] = chosen[d] /\ rule'[d] = rule[d] /\ indexError'[d] = indexError[d]
  /\ outcome'[d] = outcome[d] /\ thrown'[d] = thrown[d]

C14_OneCallPerStep == \E c \in calls : \A d \in calls \ {c} : Untouched(d)

(* C14: in every interleaving of the steps of the calls in flight, a call  *)
(* ends with the outcome it has when it runs alone against the same        *)
(* upstream responses, and every step writes the locals of one call only.  *)
C14_NoInterference == [] C14_AsAlone /\ [][C14_OneCallPerStep]_vars

C14_Witness ==
  \E c, d \in calls :
    /\ formRaw[c] = "10-k" /\ formRaw[d] = "S-3"
    /\ pc[d] = "Resolved" /\ rule[d] = "anyHtml"
    /\ pc[c] = "AwaitHdr"
    /\ rows[c] = <<>> /\ rows[d] # <<>>

(***************************************************************************)
(* Properties of the filename-pattern rule.                                *)
(***************************************************************************)
PatternsOf(c) == FORM_FILENAME_PATTERNS(formUpperOf(c))

(* the rows whose filename matches the k-th expression of the form *)
RowsMatching(c, k) == {i \in RowIdx(c) : RegexTest(PatternsOf(c)[k], rows[c][i].document)}

(* the expressions of the form that match some row *)
HittingPatterns(c) == {k \in 1..Len(PatternsOf(c)) : RowsMatching(c, k) # {}}

C15_Original ==
  \A c \in calls :
    (ViaIndex(c) /\ PatternIdx(c) # {}) => chosen[c] = Some(rows[c][First(PatternIdx(c))])

(* C15: when some row's filename matches an expression of the requested    *)
(* form, the expressions are tried in the order of the form's list and the *)
(* chosen row is the first row in table order that matches the first       *)
(* expression matching any row; a row matching only a later expression is  *)
(* passed over even when it stands earlier in the table.                   *)
C15_FirstPatternFirstRow ==
  \A c \in calls :
    (ViaIndex(c) /\ PatternIdx(c) # {}) =>
      /\ rule[c] = "pattern"
      /\ chosen[c] = Some(rows[c][First(RowsMatching(c, First(HittingPatterns(c))))])
      /\ outcome[c] = [kind |-> "url", val |-> Base \o chosen[c][1].document]

C15_Witness ==
  \E c \in calls :
    /\ ViaIndex(c)
    /\ Len(rows[c]) = 2
    /\ rows[c][1].document = "a10k.xml" /\ rows[c][2].document = "cloudastructure_i10k.htm"
    /\ RowsMatching(c, 1) = {2} /\ RowsMatching(c, 2) = {1, 2}
    /\ chosen[c] = Some(rows[c][2])

(***************************************************************************)
(* Description preference in the exact-type rule.                          *)
(***************************************************************************)
(* C16: in the exact-type rule, when some row of the requested type has a  *)
(* description containing the form type, the chosen row is one of the rows *)
(* of that type with such a description.                                   *)
C16_DescriptionPreferred ==
  \A c \in calls :
    ( /\ ViaIndex(c)
      /\ IsLegacy(c) \/ PatternIdx(c) = {}
      /\ SameTypeIdx(c) \cap DescIdx(c) # {} ) =>
      \E i \in SameTypeIdx(c) \cap DescIdx(c) : chosen[c] = Some(rows[c][i])

(***************************************************************************)
(* Ties and the non-HTML rows of the requested type.                       *)
(***************************************************************************)
(* the rows of S whose size no row of S exceeds *)
LargestOf(c, S) == {i \in S : LargestIn(c, i, S)}

(* C17: without a filename-pattern hit, when several HTML rows of the      *)
(* requested type (exact-type rule) or, with no row of that type, several  *)
(* HTML rows (global HTML rule) share the largest size, the first of them  *)
(* in table order is chosen; and when rows of the requested type exist but *)
(* none is HTML, the first row of that type is chosen even if HTML rows of *)
(* other types exist.                                                      *)
C17_TiesAndTypeFirst ==
  \A c \in calls :
    (ViaIndex(c) /\ PatternIdx(c) = {}) =>
      /\ SameTypeIdx(c) \cap HtmlIdx(c) # {} =>
           chosen[c] = Some(rows[c][First(LargestOf(c, SameTypeIdx(c) \cap HtmlIdx(c)))])
      /\ (SameTypeIdx(c) = {} /\ HtmlIdx(c) # {}) =>
           chosen[c] = Some(rows[c][First(LargestOf(c, HtmlIdx(c)))])
      /\ (SameTypeIdx(c) # {} /\ SameTypeIdx(c) \cap HtmlIdx(c) = {}) =>
           /\ chosen[c] = Some(rows[c][First(SameTypeIdx(c))])
           /\ outcome[c] = [kind |-> "url", val |-> Base \o rows[c][First(SameTypeIdx(c))].document]

C17_Witness ==
  \E c \in calls :
    /\ ViaIndex(c) /\ PatternIdx(c) = {}
    /\ Len(rows[c]) = 2
    /\ SameTypeIdx(c) = {2} /\ HtmlIdx(c) = {1}
    /\ rows[c][1].size # Zero
    /\ rule[c] = "typeFirst"
    /\ chosen[c] = Some(rows[c][2])

(* a tie on a size that is a number: both rows are candidates of the same  *)
(* rule, their sizes are equal and not zero, and the earlier one is chosen *)
C17_TieReached ==
  \E c \in calls :
    /\ ViaIndex(c) /\ PatternIdx(c) = {}
    /\ Len(rows[c]) = 2
    /\ HtmlIdx(c) = {1, 2} /\ SameTypeIdx(c) \in {{}, {1, 2}}
    /\ rows[c][1].size = rows[c][2].size /\ rows[c][1].size # Zero
    /\ rows[c][1].document # rows[c][2].document
    /\ chosen[c] = Some(rows[c][1])

(***************************************************************************)
(* The selection never fails on a non-empty rows array.                    *)
(***************************************************************************)
(* C18: once the index table has yielded a valid row, the index selection  *)
(* of either picker returns a URL and raises nothing: the call is resolved *)
(* with folder URL + filename of one of the parsed rows, that filename is  *)
(* not empty, and when no pattern hits, no type matches and no row is HTML *)
(* the row is the first one in table order.                                *)
C18_SelectionTotal ==
  \A c \in calls :
    rows[c] # <<>> =>
      /\ pc[c] = "Resolved"
      /\ indexError[c] = None /\ thrown[c] = <<>> /\ warnings[c] = <<>>
      /\ \E i \in RowIdx(c) :
           /\ chosen[c] = Some(rows[c][i])
           /\ rows[c][i].document # ""
           /\ outcome[c] = [kind |-> "url", val |-> Base \o rows[c][i].document]
      /\ ((IsLegacy(c) \/ PatternIdx(c) = {}) /\ SameTypeIdx(c) = {} /\ HtmlIdx(c) = {}) =>
           chosen[c] = Some(rows[c][1])

C18_Witness ==
  \E c \in calls :
    /\ ~IsLegacy(c)
    /\ Len(rows[c]) = 2
    /\ PatternIdx(c) = {} /\ SameTypeIdx(c) = {} /\ HtmlIdx(c) = {}
    /\ rule[c] = "firstRow"
    /\ outcome[c] = [kind |-> "url", val |-> Base \o rows[c][1].document]

(***************************************************************************)
(* Properties of the listing-service selection.                            *)
(***************************************************************************)
Files == upstream.listing.json.files

FileIdx == 1..Len(Files)

(* the listing service was asked and its non-empty array has been handled *)
ViaListing(c) ==
  /\ pc[c] \in Terminal
  /\ indexError[c] # None
  /\ upstream.listing.ok /\ upstream.listing.json.kind = "array" /\ Files # <<>>

HasNull == \E i \in FileIdx : Files[i].null

(* the descriptors whose filename matches the k-th expression of the form *)
FilesMatching(c, k) ==
  {i \in FileIdx : ~Files[i].null /\ RegexTest(PatternsOf(c)[k], OrEmpty(Files[i].filename))}

PatternFiles(c) == UNION {FilesMatching(c, k) : k \in 1..Len(PatternsOf(c))}

(* the expressions whose first matching descriptor carries a url *)
UsablePatterns(c) ==
  {k \in 1..Len(PatternsOf(c)) :
     FilesMatching(c, k) # {} /\ Truthy(Files[First(FilesMatching(c, k))].url)}

HtmlFiles ==
  {i \in FileIdx : ~Files[i].null /\ (Files[i].type = Some("html")
                                        \/ IsHtmlFile(OrEmpty(Files[i].filename)))}

PdfFiles == {i \in FileIdx : ~Files[i].null /\ Files[i].type = Some("pdf")}

(* the caller received the url field of descriptor i *)
Returned(c, i) == pc[c] = "Resolved" /\ outcome[c] = ReturnUrl(Files[i])

C19_Original ==
  \A c \in calls :
    (ViaListing(c) /\ ~HasNull) =>
      IF PatternFiles(c) # {} THEN \E i \in PatternFiles(c) : Returned(c, i)
      ELSE IF HtmlFiles # {} THEN \E i \in HtmlFiles : Returned(c, i)
      ELSE IF PdfFiles # {} THEN \E i \in PdfFiles : Returned(c, i)
      ELSE Returned(c, 1)

(* C19: on a non-empty descriptor array the listing strategy returns, in   *)
(* this priority: the url of the first descriptor matching the earliest    *)
(* expression of the form whose first match carries a url; otherwise the   *)
(* url field of an HTML descriptor (type "html" or .htm/.html filename);   *)
(* otherwise the url of the first descriptor of type "pdf" if it carries   *)
(* one; otherwise the url field of the first descriptor.  A pattern hit or *)
(* a PDF descriptor without a url is passed over.  Only an array with a    *)
(* null element can make the call fail, with a TypeError.                  *)
C19_ListingPriority ==
  \A c \in calls :
    ViaListing(c) =>
      \/ HasNull /\ pc[c] = "Failed" /\ outcome[c] = [kind |-> "error", val |-> "TypeError"]
      \/ IF UsablePatterns(c) # {}
         THEN Returned(c, First(FilesMatching(c, First(UsablePatterns(c)))))
         ELSE IF HtmlFiles # {} THEN \E i \in HtmlFiles : Returned(c, i)
         ELSE IF PdfFiles # {} /\ Truthy(Files[First(PdfFiles)].url)
         THEN Returned(c, First(PdfFiles))
         ELSE Returned(c, 1)

C19_Witness ==
  \E c \in calls :
    /\ ViaListing(c) /\ ~HasNull
    /\ Len(Files) = 2
    /\ PatternFiles(c) = {} /\ HtmlFiles = {}
    /\ PdfFiles = {2} /\ Files[2].url = None
    /\ Files[1].url # None
    /\ outcome[c] = [kind |-> "url", val |-> Files[1].url[1]]

(* the filename suggests an index or header file: /index|header|headers|idx/i *)
IndexLike(i) ==
  \E word \in {"INDEX", "HEADER", "IDX"} :
    includes(toUpperCase(OrEmpty(Files[i].filename)), word)

(* C20: when the HTML step of the listing strategy is reached, a           *)
(* descriptor whose filename suggests an index/header file is not what it  *)
(* returns: an HTML descriptor that is not such a file is returned if      *)
(* there is one, and when all HTML descriptors are index/header files and  *)
(* a PDF descriptor with a url is present, the PDF descriptor is returned. *)
C20_IndexFilesExcluded ==
  \A c \in calls :
    (ViaListing(c) /\ ~HasNull /\ UsablePatterns(c) = {} /\ HtmlFiles # {}) =>
      LET main == {i \in HtmlFiles : ~IndexLike(i)}
      IN IF main # {} THEN \E i \in main : Returned(c, i)
         ELSE (PdfFiles # {} /\ Truthy(Files[First(PdfFiles)].url)) =>
                Returned(c, First(PdfFiles))

(***************************************************************************)
(* Properties of the index fetch loop.                                     *)
(***************************************************************************)
FetchFailure == "Could not fetch SEC index page"

(* the fetch loop of the index strategy of call c has ended *)
IndexFetchesDone(c) == pc[c] \in {"AwaitListing", "Resolved", "Failed"} /\ fetches[c] # <<>>

(* the requests are made in order, the second only after the first failed, *)
(* and the body of the first success is the one kept                       *)
IndexFetchSequence(c) ==
  /\ fetches[c] # <<>> => fetches[c][1] = hdrUrl
  /\ pc[c] = "AwaitHdr" => fetches[c] = <<hdrUrl>>
  /\ (\E i \in 1..Len(fetches[c]) : fetches[c][i] = idxUrl) =>
       /\ ~upstream.hdr.ok
       /\ pc[c] # "AwaitHdr"
       /\ Occurrences(fetches[c], idxUrl) = 1 /\ fetches[c][2] = idxUrl
  /\ IndexFetchesDone(c) =>
       /\ upstream.hdr.ok => indexHtml[c] = Some(upstream.hdr.body)
       /\ (~upstream.hdr.ok /\ upstream.idx.ok) => indexHtml[c] = Some(upstream.idx.body)
       /\ (~upstream.hdr.ok /\ ~upstream.idx.ok) =>
            (indexHtml[c] = None /\ indexError[c] = Some(FetchFailure))

(* C21: the index-headers URL is requested first and the plain index URL   *)
(* only after the index-headers request failed; the index strategy fails   *)
(* with the fetch failure if and only if both requests failed, and the     *)
(* body of a successful response is the one parsed.                        *)
C21_FetchFailureIffBothFailed ==
  \A c \in calls :
    /\ IndexFetchSequence(c)
    /\ IndexFetchesDone(c) =>
         (indexError[c] = Some(FetchFailure) <=> (~upstream.hdr.ok /\ ~upstream.idx.ok))

(***************************************************************************)
(* Properties of the index page parsing.                                   *)
(***************************************************************************)
(* a non-empty index page has been fetched by call c and handled *)
Parsed(c) == IndexFetchesDone(c) /\ indexHtml[c] # None /\ ~indexHtml[c][1].empty

TablesOfPage(c) == indexHtml[c][1].tables

TableFileIdx(c) == {t \in 1..Len(TablesOfPage(c)) : TablesOfPage(c)[t].class = "tableFile"}

(* the table the rows are read from; the page has a table *)
DocumentsTable(c) ==
  IF TableFileIdx(c) # {} THEN TablesOfPage(c)[First(TableFileIdx(c))] ELSE TablesOfPage(c)[1]

IsValidTr(tds) == Len(tds) >= 2 /\ trim(tds[1]) # ""

(* the valid rows of a table, in table order *)
KeptRows(trs) ==
  LET kept == SelectSeq(trs, IsValidTr)
  IN [i \in 1..Len(kept) |-> ParseRow(kept[i])]

(* the index strategy of call c returned no URL: it threw, and the listing *)
(* service was asked                                                       *)
IndexGaveNoUrl(c, message) ==
  /\ indexError[c] = Some(message)
  /\ chosen[c] = None
  /\ trace[c] = Strategies
  /\ outcome[c].kind = "url" => Some(outcome[c].val) \in ListingUrls

(* C22: the rows are read from the first table of class tableFile if the   *)
(* page has one, otherwise from its first table; a page without a table    *)
(* fails; the rows kept are exactly those with at least two cells and a    *)
(* non-empty filename in cell 1, in table order; no kept row fails; in     *)
(* both failures the index strategy returns no URL.                        *)
C22_TableAndRows ==
  \A c \in calls :
    Parsed(c) =>
      IF TablesOfPage(c) = <<>>
      THEN rows[c] = <<>> /\ IndexGaveNoUrl(c, "No table found in SEC index")
      ELSE /\ rows[c] = KeptRows(DocumentsTable(c).trs)
           /\ IF rows[c] = <<>>
              THEN IndexGaveNoUrl(c, "No document rows found in SEC index")
              ELSE indexError[c] = None /\ chosen[c] # None

C22_Witness ==
  \E c \in calls :
    /\ Parsed(c)
    /\ Len(TablesOfPage(c)) = 2
    /\ TableFileIdx(c) = {2}
    /\ KeptRows(TablesOfPage(c)[1].trs) # KeptRows(TablesOfPage(c)[2].trs)
    /\ KeptRows(TablesOfPage(c)[1].trs) # <<>>
    /\ Len(DocumentsTable(c).trs) = 1
    /\ rows[c] = <<ParseRow(<<"r.xml", "EX-101">>)>>
    /\ pc[c] = "Resolved"

(* both failures of the parsing are reached *)
C22_FailuresReached ==
  /\ \E c \in calls : Parsed(c) /\ TablesOfPage(c) # <<>> /\ DocumentsTable(c).trs # <<>>
                         /\ rows[c] = <<>> /\ pc[c] = "Resolved"
                         /\ indexError[c] = Some("No document rows found in SEC index")

(***************************************************************************)
(* Requests per call.                                                      *)
(***************************************************************************)
Requested(c, url) == \E i \in 1..Len(fetches[c]) : fetches[c][i] = url

(* C23: no fetch is retried.  In one call each of the index-headers URL,   *)
(* the plain index URL and the listing-service URL is requested at most    *)
(* once and nothing else is requested, so a call makes at most three       *)
(* requests; and a call whose index strategy returned a URL has not        *)
(* requested the listing service.                                          *)
C23_AtMostOnce ==
  \A c \in calls :
    /\ \A i \in 1..Len(fetches[c]) : fetches[c][i] \in {hdrUrl, idxUrl, listingUrl}
    /\ \A u \in {hdrUrl, idxUrl, listingUrl} : Occurrences(fetches[c], u) <= 1
    /\ Len(fetches[c]) <= 3
    /\ chosen[c] # None => (pc[c] = "Resolved" /\ ~Requested(c, listingUrl))

C23_Witness ==
  \E c, d \in calls :
    /\ pc[c] = "Failed" /\ fetches[c] = <<hdrUrl, idxUrl, listingUrl>>
    /\ pc[d] = "Failed" /\ fetches[d] = fetches[c]
    /\ c # d

(* a call resolved by the index strategy after two requests *)
C23_IndexUrlReached ==
  \E c \in calls : chosen[c] # None /\ fetches[c] = <<hdrUrl, idxUrl>> /\ pc[c] = "Resolved"

(***************************************************************************)
(* Properties of the route handlers.                                       *)
(***************************************************************************)
Statuses(c) == [i \in 1..Len(responses[c]) |-> responses[c][i].status]

C24_Answers ==
  \A c \in calls :
    /\ MissingParams(c) =>
         /\ pc[c] = "NotStarted" /\ trace[c] = <<>> /\ fetches[c] = <<>>
         /\ serviceCalls[c] = <<>>
         /\ handler[c] = "Done" => Statuses(c) = <<"400">>
         /\ handler[c] # "Done" => (handler[c] = "Idle" /\ responses[c] = <<>>)
    /\ pc[c] = "Failed" =>
         /\ serviceCalls[c] = <<>>
         /\ trace[c] = Strategies /\ Len(fetches[c]) = 3
         /\ handler[c] = "Done" => Statuses(c) = <<"500">>
         /\ handler[c] # "Done" => (handler[c] = "Resolving" /\ responses[c] = <<>>)

(* a request that has its response gets no other, and nothing more is done *)
(* for it                                                                  *)
C24_AnsweredOnce ==
  \A c \in calls :
    handler[c] = "Done" =>
      /\ handler'[c] = "Done" /\ responses'[c] = responses[c]
      /\ serviceCalls'[c] = serviceCalls[c] /\ fetches'[c] = fetches[c] /\ pc'[c] = pc[c]

(* C24: a request to /filing-pdf or /filing-xlsx that lacks cik, accession *)
(* or form is answered with 400 and the resolver is never invoked, so no   *)
(* index or listing request is made; and when the resolution has ended in  *)
(* Failed the handler sends one response, a 500, and neither calls the PDF *)
(* service nor fetches a document nor resolves again.                      *)
C24_ValidationAndFailure == [] C24_Answers /\ [][C24_AnsweredOnce]_vars

C24_Witness ==
  \E c \in calls :
    /\ pc[c] = "Failed" /\ handler[c] = "Done"
    /\ query[c].route = "xlsx"
    /\ Len(fetches[c]) = 3
    /\ responses[c] = <<[status |-> "500", body |-> "Error generating XLSX"]>>

(* a request without its form parameter has been answered *)
C24_MissingReached ==
  \E c \in calls :
    /\ formRaw[c] = "" /\ cik # "" /\ accession # ""
    /\ query[c].route = "pdf" /\ ~services.configured
    /\ responses[c] = <<[status |-> "400", body |-> "Missing required query params"]>>

(***************************************************************************)
(* Letter case and surrounding spaces of the form argument.                *)
(***************************************************************************)
(* C25: two calls on the same filing whose form arguments are spellings of *)
(* one form (letter case changed, spaces put around it) take the same      *)
(* strategy path, make the same requests and end with the same result,     *)
(* in the deterministic lookup as in the exact-type row match, where the   *)
(* type cells are upper-cased before they are compared.                    *)
C25_SpellingIrrelevant ==
  \A c, d \in calls :
    (formRaw[d] \in Spellings(formRaw[c]) /\ pc[c] \in Terminal /\ pc[d] \in Terminal) =>
      /\ pc[c] = pc[d]
      /\ trace[c] = trace[d]
      /\ fetches[c] = fetches[d]
      /\ outcome[c] = outcome[d]
      /\ chosen[c] = chosen[d] /\ rule[c] = rule[d]
      /\ \A i \in RowIdx(c) : rows[c][i].type = toUpperCase(rows[c][i].type)

C25_Witness ==
  \E c, d \in calls :
    /\ formRaw[c] = "s-3" /\ formRaw[d] = "  S-3 "
    /\ pc[c] = "Resolved" /\ pc[d] = "Resolved"
    /\ rule[c] = "typeHtml" /\ rule[d] = "typeHtml"
    /\ indexHtml[c][1].tables[1].trs[2][2] = "s-3"
    /\ outcome[d] = [kind |-> "url", val |-> Base \o "reg.htm"]

(* the spellings of a form of the deterministic map are resolved alike *)
C25_DeterministicReached ==
  \E c, d \in calls :
    /\ formRaw[c] = "4/a" /\ formRaw[d] = " 4/A  "
    /\ trace[c] = <<"TryDeterministic">> /\ trace[d] = <<"TryDeterministic">>
    /\ pc[c] = "Resolved" /\ outcome[c] = outcome[d]

(***************************************************************************)
(* Termination.                                                            *)
(***************************************************************************)
(* C26: when every issued fetch completes, every call that has been        *)
(* started reaches Resolved or Failed.                                     *)
C26_Terminates ==
  \A c \in 1..NumCalls : (pc[c] # "NotStarted") ~> (pc[c] \in Terminal)

C26_Witness ==
  /\ \A c \in calls : pc[c] \in Terminal
  /\ \E c \in calls :
       /\ pc[c] = "Resolved"
       /\ trace[c] = Strategies
       /\ fetches[c] = <<hdrUrl, idxUrl, listingUrl>>

(***************************************************************************)
(* /filing-pdf: the calls of the PDF conversion service and the responses. *)
(***************************************************************************)
PdfRequests == {c \in calls : query[c].route = "pdf"}

(* the handler holds a URL that its .pdf test does not match *)
HoldsConvertibleUrl(c) ==
  /\ pc[c] = "Resolved"
  /\ outcome[c].kind = "url"
  /\ ~IsPdfUrl(outcome[c].val)

(* the conversion service is called at most twice, first with use_print_css *)
(* and then, after a 400 on a request without debug=1, with use_print      *)
TwoCallsAtMost(c) ==
  /\ Len(serviceCalls[c]) <= 2
  /\ \A i \in 1..Len(serviceCalls[c]) :
       /\ serviceCalls[c][i].service = "pdf"
       /\ serviceCalls[c][i].option = IF i = 1 THEN "use_print_css" ELSE "use_print"
  /\ Len(serviceCalls[c]) = 2 => services.conv1 = "400" /\ query[c].debug # "1"

(* a resolved .pdf URL is answered with a redirect to it and nothing else *)
PdfUrlRedirected(c) ==
  (handler[c] = "Done" /\ pc[c] = "Resolved" /\ outcome[c].kind = "url"
     /\ IsPdfUrl(outcome[c].val))
    => /\ serviceCalls[c] = <<>>
       /\ responses[c] = <<[status |-> "302", body |-> outcome[c].val]>>

(* one response when the handler is done, none before *)
AnsweredOnce(c) == Len(responses[c]) = IF handler[c] = "Done" THEN 1 ELSE 0

(* what the handler does keep: no conversion call before resolvePrimaryUrl *)
(* has returned, none for a value its .pdf test matches, at most two calls, *)
(* one response                                                            *)
C27_CallsFollowResolution ==
  \A c \in PdfRequests :
    /\ serviceCalls[c] # <<>> =>
         pc[c] = "Resolved" /\ ~IsPdfUrl(OrEmpty(PrimaryUrl(c)))
    /\ TwoCallsAtMost(c)
    /\ PdfUrlRedirected(c)
    /\ AnsweredOnce(c)

(* C27: in /filing-pdf the conversion service is called only after the     *)
(* resolution succeeded with a URL that does not end in .pdf, a .pdf URL   *)
(* is redirected without a conversion call, the service is called at most  *)
(* twice (the second time only after a 400 and without debug=1), and every *)
(* request gets exactly one response.                                      *)
C27_ConversionOnlyForUrl ==
  \A c \in PdfRequests :
    /\ serviceCalls[c] # <<>> => HoldsConvertibleUrl(c)
    /\ TwoCallsAtMost(c)
    /\ PdfUrlRedirected(c)
    /\ AnsweredOnce(c)

(* both conversion calls were made and the request was answered *)
C27_TwoCallsReached ==
  \E c \in PdfRequests :
    /\ Len(serviceCalls[c]) = 2
    /\ handler[c] = "Done"
    /\ HoldsConvertibleUrl(c)

====
